---- MODULE Spec2Model ----
(***************************************************************************)
(* A model of yamdr's md crate: the Markdown -> extended-event pipeline    *)
(* (parse_markdown), the block readers and the script runtime              *)
(* (script_block.rs), the Markdown re-serializer (md.rs) and the document  *)
(* segmenter (render_blocks).                                              *)
(*                                                                         *)
(* Text is modelled as a sequence of tokens (Seq(STRING)): "\n" is the     *)
(* line break, "//>" the output-comment prefix "// > ", "_" the inline     *)
(* sentinel, "~~~" a code fence.  The external tokenizer (pulldown-cmark)  *)
(* is modelled by the event streams it delivers.                           *)
(***************************************************************************)
EXTENDS Integers, Sequences, FiniteSets, TLC

VARIABLES
    input,                 \* the tokenizer's event stream for the document
    pos,                   \* index of the next tokenizer event to pull
    level,                 \* parse_markdown: nesting depth
    element_i,             \* parse_markdown: index of the top-level element
    current_custom_block,  \* parse_markdown: Option<CustomBlockHeader>
    runtime,               \* ScriptBlockReader.runtime: scope and globals
    data,                  \* ScriptBlockReader.data
    events,                \* the extended events collected so far
    pc,                    \* where the render call is
    panic,                 \* the abort message, "" while none
    output,                \* what render_markdown returned
    blocks,                \* what render_blocks returned
    reads                  \* the reader calls made so far, with their results

vars == <<input, pos, level, element_i, current_custom_block, runtime, data,
          events, pc, panic, output, blocks, reads>>

(***************************************************************************)
(* Bounds of the model.                                                    *)
(***************************************************************************)
MaxElems == 2
MaxScript == 3
MaxQuote == 2

(***************************************************************************)
(* Sequence helpers.                                                       *)
(***************************************************************************)
None == <<>>
Some(v) == <<v>>
IsSome(o) == Len(o) > 0
Unwrap(o) == o[1]

Last(s) == s[Len(s)]
Front(s) == SubSeq(s, 1, Len(s) - 1)
Range(s) == {s[i] : i \in 1..Len(s)}

\* the concatenation of the sequences of ss, by halves
RECURSIVE Flatten(_)
Flatten(ss) ==
    IF ss = <<>> THEN <<>>
    ELSE IF Len(ss) = 1 THEN ss[1]
    ELSE Flatten(SubSeq(ss, 1, Len(ss) \div 2))
         \o Flatten(SubSeq(ss, Len(ss) \div 2 + 1, Len(ss)))

RECURSIVE SeqsUpTo(_, _)
SeqsUpTo(S, n) ==
    IF n = 0 THEN {<<>>}
    ELSE LET shorter == SeqsUpTo(S, n - 1)
         IN  shorter \cup {Append(s, x) : s \in shorter, x \in S}

(***************************************************************************)
(* Decimal formatting and parsing: format!("{}", n) and str::parse.        *)
(***************************************************************************)
Digits == <<"0", "1", "2", "3", "4", "5", "6", "7", "8", "9">>
U16Max == 65535

RECURSIVE FormatNum(_)
FormatNum(n) ==
    IF n < 10 THEN <<Digits[n + 1]>>
    ELSE Append(FormatNum(n \div 10), Digits[(n % 10) + 1])

DigitValue(c) == CHOOSE d \in 0..9 : Digits[d + 1] = c
IsDigit(c) == \E d \in 0..9 : Digits[d + 1] = c

RECURSIVE ParseDigits(_, _)
ParseDigits(toks, acc) ==
    IF toks = <<>> THEN acc
    ELSE ParseDigits(Tail(toks), acc * 10 + DigitValue(Head(toks)))

\* str::parse::<u16>: Ok(n) as Some(n), Err as None
ParseU16(toks) ==
    IF toks # <<>> /\ (\A i \in 1..Len(toks) : IsDigit(toks[i]))
       /\ ParseDigits(toks, 0) <= U16Max
    THEN Some(ParseDigits(toks, 0))
    ELSE None

(***************************************************************************)
(* Tokenizer events (pulldown_cmark::Event).  k is the event kind, tag the *)
(* Tag of a Start/End, s the payload: the info string of a fenced code     *)
(* block, the label of a footnote definition, the text of Text/Code/Html.  *)
(***************************************************************************)
Ev(k, tag, s) == [k |-> k, tag |-> tag, s |-> s]
StartEv(tag, s) == Ev("Start", tag, s)
EndEv(tag, s) == Ev("End", tag, s)
TextEv(s) == Ev("Text", "", s)
CodeEv(s) == Ev("Code", "", s)
HtmlEv(s) == Ev("Html", "", s)
RuleEv == Ev("Rule", "", <<>>)

(***************************************************************************)
(* CustomBlockHeader and its (de)serialization.  An info string is a token *)
(* sequence; a flow mapping is "{" k1 v1 k2 v2 ... "}".                    *)
(***************************************************************************)
Header(t, fields) == [t |-> t, fields |-> fields]
HeaderEmpty(t) == Header(t, {})

RECURSIVE Pairs(_)
Pairs(toks) ==
    IF Len(toks) < 2 THEN {}
    ELSE {<<toks[1], toks[2]>>} \cup Pairs(SubSeq(toks, 3, Len(toks)))

\* serde_yaml::from_str::<CustomBlockHeader>: Some(header), or None on Err
ParseHeader(prop) ==
    IF Len(prop) >= 2 /\ Head(prop) = "{" /\ Last(prop) = "}"
       /\ (Len(prop) - 2) % 2 = 0
    THEN LET kv == Pairs(SubSeq(prop, 2, Len(prop) - 1))
             ts == {p \in kv : p[1] = "t"}
         IN  IF Cardinality(ts) = 1 /\ Cardinality(kv) = (Len(prop) - 2) \div 2
             THEN Some(Header((CHOOSE p \in ts : TRUE)[2], kv \ ts))
             ELSE None
    ELSE None

\* the orders in which a HashMap's entries can be iterated
Orders(fields) ==
    {o \in SeqsUpTo(fields, Cardinality(fields)) :
        Len(o) = Cardinality(fields) /\ Range(o) = fields}

\* serde_json::to_string(&header), for one iteration order of the fields
HeaderToString(header, order) ==
    <<"{", "t", header.t>>
    \o Flatten([i \in 1..Len(order) |-> <<order[i][1], order[i][2]>>])
    \o <<"}">>

(***************************************************************************)
(* str::lines and line tests on token text.                                *)
(***************************************************************************)
RECURSIVE SplitLines(_, _)
SplitLines(text, cur) ==
    IF text = <<>> THEN (IF cur = <<>> THEN <<>> ELSE <<cur>>)
    ELSE IF Head(text) = "\n" THEN <<cur>> \o SplitLines(Tail(text), <<>>)
    ELSE SplitLines(Tail(text), Append(cur, Head(text)))

Lines(text) == SplitLines(text, <<>>)

\* [..].join("\n")
RECURSIVE JoinLines(_)
JoinLines(ls) ==
    IF ls = <<>> THEN <<>>
    ELSE IF Len(ls) = 1 THEN ls[1]
    ELSE ls[1] \o <<"\n">> \o JoinLines(Tail(ls))

\* line.starts_with("// > ")
IsOutputComment(line) == line # <<>> /\ Head(line) = "//>"

\* the length in bytes of a token text ("//>" stands for " // > ")
RECURSIVE StrLen(_)
StrLen(toks) ==
    IF toks = <<>> THEN 0
    ELSE (IF Head(toks) = "//>" THEN 6 ELSE IF Head(toks) = "10" THEN 2 ELSE 1)
         + StrLen(Tail(toks))

(***************************************************************************)
(* The scripting engine (rhai), as far as the runtime uses it.  A script   *)
(* is a token text; each line is one statement:                            *)
(*    let v e | set v e | debug e | row e.. | plot e.. | call f            *)
(*    debug idx N i f                                                      *)
(*    fn f debug e | fn f ret e | // .. | //> .. | throw | bad             *)
(* "bad" does not compile, "throw" fails at run time.  An expression is a  *)
(* digit or a variable name.                                               *)
(***************************************************************************)
\* a scope entry; rows is the content of an array value (a dataset)
Entry(name, value, const, rows) ==
    [name |-> name, value |-> value, const |-> const, rows |-> rows]

ScopeHas(scope, name) == \E e \in scope : e.name = name
ScopeGet(scope, name) == CHOOSE e \in scope : e.name = name
ScopePut(scope, name, value, const) ==
    {e \in scope : e.name # name} \cup {Entry(name, value, const, <<>>)}

\* Some(value), or None when the variable is not defined
Eval(e, scope) ==
    IF IsDigit(e) \/ e = "10" THEN Some(e)
    ELSE IF ScopeHas(scope, e) THEN Some(ScopeGet(scope, e).value)
    ELSE None

\* an expression: a digit, a variable, or idx N i f for N[i][f]; a field the
\* row does not have reads as the unit value
EvalExpr(es, scope) ==
    IF Len(es) = 1 THEN Eval(es[1], scope)
    ELSE IF Len(es) = 4 /\ es[1] = "idx" /\ IsDigit(es[3]) /\ ScopeHas(scope, es[2])
            /\ ScopeGet(scope, es[2]).value = "array"
            /\ DigitValue(es[3]) < Len(ScopeGet(scope, es[2]).rows)
    THEN LET row == ScopeGet(scope, es[2]).rows[DigitValue(es[3]) + 1]
         IN  IF \E p \in row : p[1] = es[4]
             THEN Some((CHOOSE p \in row : p[1] = es[4])[2])
             ELSE Some("")
    ELSE None

Compiles(script) == \A i \in 1..Len(Lines(script)) : Lines(script)[i] # <<"bad">>

\* the function definitions of a compiled script, each with its source line
Functions(script) ==
    LET ls == Lines(script)
    IN  {[name |-> ls[i][2], line |-> i, body |-> SubSeq(ls[i], 3, Len(ls[i]))] :
            i \in {j \in 1..Len(ls) : Len(ls[j]) >= 2 /\ ls[j][1] = "fn"}}

\* AST::merge: the functions of both, those of `own` winning
MergeFunctions(globals, own) ==
    own \cup (IF IsSome(globals)
              THEN {g \in Unwrap(globals) : ~\E f \in own : f.name = g.name}
              ELSE {})

RunState(scope) == [scope |-> scope, log |-> <<>>, calls |-> <<>>, err |-> ""]

RECURSIVE EvalAll(_, _)
EvalAll(es, scope) ==
    IF es = <<>> THEN Some(<<>>)
    ELSE LET v == Eval(Head(es), scope)
             rest == EvalAll(Tail(es), scope)
         IN  IF IsSome(v) /\ IsSome(rest) THEN Some(<<Unwrap(v)>> \o Unwrap(rest))
             ELSE None

\* one statement at source line n; builtin is the host function registered
ExecStmt(stmt, n, st, fns, builtin) ==
    IF st.err # "" \/ stmt = <<>> THEN st
    ELSE LET op == Head(stmt)
             args == Tail(stmt)
         IN
         IF op = "let" THEN
            LET v == Eval(args[2], st.scope)
            IN  IF IsSome(v)
                THEN [st EXCEPT !.scope = ScopePut(st.scope, args[1], Unwrap(v), FALSE)]
                ELSE [st EXCEPT !.err = "runtime error"]
         ELSE IF op = "set" THEN
            LET v == Eval(args[2], st.scope)
            IN  IF IsSome(v) /\ ScopeHas(st.scope, args[1])
                   /\ ~ScopeGet(st.scope, args[1]).const
                THEN [st EXCEPT !.scope = ScopePut(st.scope, args[1], Unwrap(v), FALSE)]
                ELSE [st EXCEPT !.err = "runtime error"]
         ELSE IF op = "debug" THEN
            LET v == EvalExpr(args, st.scope)
            IN  IF IsSome(v)
                THEN [st EXCEPT !.log = Append(st.log, <<n, Unwrap(v)>>)]
                ELSE [st EXCEPT !.err = "runtime error"]
         ELSE IF op \in {"row", "plot"} THEN
            LET vs == EvalAll(args, st.scope)
            IN  IF op = builtin /\ IsSome(vs)
                THEN [st EXCEPT !.calls = Append(st.calls, Unwrap(vs))]
                ELSE [st EXCEPT !.err = "runtime error"]
         ELSE IF op = "call" THEN
            IF \E f \in fns : f.name = args[1]
            THEN LET f == CHOOSE g \in fns : g.name = args[1]
                     \* a function body sees no variable of the caller
                     v == Eval(f.body[2], {})
                 IN  IF f.body[1] = "debug" /\ IsSome(v)
                     THEN [st EXCEPT !.log = Append(st.log, <<f.line, Unwrap(v)>>)]
                     ELSE IF f.body[1] = "ret" /\ IsSome(v) THEN st
                     ELSE [st EXCEPT !.err = "runtime error"]
            ELSE [st EXCEPT !.err = "runtime error"]
         ELSE IF op = "throw" THEN [st EXCEPT !.err = "runtime error"]
         ELSE st

RECURSIVE ExecFrom(_, _, _, _, _)
ExecFrom(ls, n, st, fns, builtin) ==
    IF n > Len(ls) THEN st
    ELSE ExecFrom(ls, n + 1, ExecStmt(ls[n], n, st, fns, builtin), fns, builtin)

\* Engine::run_ast_with_scope on the script merged with the globals
RunAst(script, scope, globals, builtin) ==
    ExecFrom(Lines(script), 1, RunState(scope),
             MergeFunctions(globals, Functions(script)), builtin)

(***************************************************************************)
(* Runtime (script_block.rs).  rt = [scope, globals]; every method returns *)
(* its result and the runtime it leaves behind.                            *)
(***************************************************************************)
LineCode(s) == [lt |-> "Code", s |-> s]
LineOutput(s) == [lt |-> "Output", s |-> s]

RuntimeInit == [scope |-> {}, globals |-> None]

Ret(ok, val, err, rt, aborted) ==
    [ok |-> ok, val |-> val, err |-> err, rt |-> rt, aborted |-> aborted]

\* an add_globals that keeps the whole compiled unit and runs it once
add_globals_and_run(rt, script) ==
    IF ~Compiles(script) THEN Ret(FALSE, <<>>, "compilation error", rt, FALSE)
    ELSE Ret(TRUE, <<>>, "",
             [scope |-> RunAst(script, rt.scope, None, "").scope,
              globals |-> Some(Functions(script))], FALSE)

add_globals(rt, script) ==
    IF ~Compiles(script) THEN Ret(FALSE, <<>>, "compilation error", rt, FALSE)
    ELSE Ret(TRUE, <<>>, "", [rt EXCEPT !.globals = Some(Functions(script))], FALSE)

\* the log entries recorded for line n, in the order they were logged
RECURSIVE EntriesFor(_, _)
EntriesFor(log, n) ==
    IF log = <<>> THEN <<>>
    ELSE (IF Head(log)[1] = n THEN <<LineOutput(<<Head(log)[2]>>)>> ELSE <<>>)
         \o EntriesFor(Tail(log), n)

\* every source line, then every logged message
InterleaveAtEnd(ls, i, log) ==
    [k \in 1..(Len(ls) - i + 1) |-> LineCode(ls[k + i - 1])]
    \o [k \in 1..Len(log) |-> LineOutput(<<log[k][2]>>)]

RECURSIVE Interleave(_, _, _)
Interleave(ls, i, log) ==
    IF i > Len(ls) THEN <<>>
    ELSE <<LineCode(ls[i])>> \o EntriesFor(log, i) \o Interleave(ls, i + 1, log)

\* a run_block that runs the script on a copy of the scope
RunBlockResultOnCopy(r, rt, script) ==
    IF r.err # "" THEN Ret(FALSE, <<>>, r.err, rt, FALSE)
    ELSE Ret(TRUE, SelectSeq(Interleave(Lines(script), 1, r.log),
                       LAMBDA line : line.lt = "Output" \/ ~IsOutputComment(line.s)),
             "", rt, FALSE)

\* what run_block returns after the run r of the script
RunBlockResult(r, rt, script) ==
    IF r.err # "" THEN Ret(FALSE, <<>>, r.err, [rt EXCEPT !.scope = r.scope], FALSE)
    ELSE Ret(TRUE, SelectSeq(Interleave(Lines(script), 1, r.log),
                       LAMBDA line : line.lt = "Output" \/ ~IsOutputComment(line.s)),
             "", [rt EXCEPT !.scope = r.scope], FALSE)

run_block(rt, script) ==
    IF ~Compiles(script) THEN Ret(FALSE, <<>>, "compilation error", rt, FALSE)
    ELSE RunBlockResult(RunAst(script, rt.scope, rt.globals, ""), rt, script)

\* the expression of an inline script: what precedes a comment
RECURSIVE BeforeComment(_)
BeforeComment(toks) ==
    IF toks = <<>> \/ Head(toks) \in {"//>", "//"} THEN <<>>
    ELSE <<Head(toks)>> \o BeforeComment(Tail(toks))

eval_line(rt, script) ==
    LET e == BeforeComment(script)
        fns == MergeFunctions(rt.globals, {})
    IN  IF e = <<>> THEN Ret(TRUE, <<>>, "", rt, FALSE)
        ELSE IF (Len(e) = 1 /\ e[1] # "bad") \/ (Len(e) = 4 /\ e[1] = "idx") THEN
            LET v == EvalExpr(e, rt.scope)
            IN  IF IsSome(v) THEN Ret(TRUE, v, "", rt, FALSE)
                ELSE Ret(FALSE, <<>>, "runtime error", rt, FALSE)
        ELSE IF Len(e) = 2 /\ e[1] = "call" THEN
            IF \E f \in fns : f.name = e[2] /\ f.body[1] = "ret"
            THEN Ret(TRUE, <<(CHOOSE f \in fns : f.name = e[2]).body[2]>>, "", rt, FALSE)
            ELSE Ret(FALSE, <<>>, "runtime error", rt, FALSE)
        ELSE Ret(FALSE, <<>>, "compilation error", rt, FALSE)

\* what generate_table returns after the run r of the script
TableResult(r, rt) ==
    IF r.err # "" THEN Ret(FALSE, <<>>, r.err, [rt EXCEPT !.scope = r.scope], FALSE)
    \* head.split_off(1) aborts on an empty list
    ELSE IF Len(r.calls) < 1
    THEN Ret(FALSE, <<>>, "", [rt EXCEPT !.scope = r.scope], TRUE)
    ELSE Ret(TRUE, r.calls, "", [rt EXCEPT !.scope = r.scope], FALSE)

generate_table(rt, script) ==
    IF ~Compiles(script) THEN Ret(FALSE, <<>>, "compilation error", rt, FALSE)
    ELSE TableResult(RunAst(script, rt.scope, rt.globals, "row"), rt)

\* what generate_chart returns after the run r of the script
ChartResult(r, rt) ==
    IF r.err # "" THEN Ret(FALSE, <<>>, r.err, [rt EXCEPT !.scope = r.scope], FALSE)
    ELSE Ret(TRUE, r.calls, "", [rt EXCEPT !.scope = r.scope], FALSE)

generate_chart(rt, script) ==
    IF ~Compiles(script) THEN Ret(FALSE, <<>>, "compilation error", rt, FALSE)
    ELSE ChartResult(RunAst(script, rt.scope, rt.globals, "plot"), rt)

(***************************************************************************)
(* The Markdown re-serializer (md.rs).  Spaces are not tokens; "  " is one *)
(* level of list indent, "    " the indent of an indented code block.      *)
(***************************************************************************)
TagOf(tag, s) == [tag |-> tag, s |-> s]

RECURSIVE Repeat(_, _)
Repeat(tok, n) == IF n <= 0 THEN <<>> ELSE <<tok>> \o Repeat(tok, n - 1)

\* Some(text), or None where the code is unreachable!()
start_tag(tag, parent_tags, event_count) ==
    IF tag.tag = "Heading" THEN Some(Repeat("#", ParseDigits(<<tag.s[1]>>, 0)))
    ELSE IF tag.tag = "Fenced" THEN Some(<<"~~~">> \o tag.s \o <<"\n">>)
    ELSE IF tag.tag = "TableCell" THEN Some(<<"|">>)
    ELSE IF tag.tag = "Item" THEN
        LET lvl == Cardinality({i \in 1..Len(parent_tags) : parent_tags[i].tag = "Item"})
            indent == (IF event_count + lvl = 1 THEN <<>> ELSE <<"\n">>)
                      \o Repeat("  ", lvl)
        IN  IF parent_tags # <<>> /\ Last(parent_tags).tag = "List"
            THEN IF Last(parent_tags).s # <<>>
                 THEN Some(indent
                           \o FormatNum(ParseDigits(Last(parent_tags).s, 0) + event_count - 1)
                           \o <<".">>)
                 ELSE Some(indent \o <<"-">>)
            ELSE None
    ELSE IF tag.tag = "Link" THEN Some(<<"[">>)
    ELSE IF tag.tag = "Strong" THEN Some(<<"**">>)
    ELSE IF tag.tag = "Emphasis" THEN Some(<<"*">>)
    ELSE IF tag.tag = "Strikethrough" THEN Some(<<"~~">>)
    ELSE Some(<<>>)

\* Some(text), or None where the code panics
end_tag(tag, parent_tags) ==
    IF tag.tag = "Heading" THEN
        IF Len(tag.s) < 2 THEN Some(<<"\n", "\n">>)
        ELSE Some(<<"{", "#", tag.s[2], "}", "\n", "\n">>)
    ELSE IF tag.tag = "Fenced" THEN Some(<<"~~~", "\n", "\n">>)
    ELSE IF tag.tag = "Indented" THEN Some(<<"\n">>)
    ELSE IF tag.tag = "Table" THEN Some(<<"\n">>)
    ELSE IF tag.tag = "TableHead" THEN
        IF parent_tags # <<>> /\ Last(parent_tags).tag = "Table"
        THEN Some(<<"|", "\n">> \o Repeat("|---", Len(Last(parent_tags).s))
                  \o <<"|", "\n">>)
        ELSE None
    ELSE IF tag.tag = "TableRow" THEN Some(<<"|", "\n">>)
    ELSE IF tag.tag = "TableCell" THEN Some(<<>>)
    ELSE IF tag.tag = "List" THEN
        IF parent_tags # <<>> /\ Last(parent_tags).tag = "Item" THEN Some(<<>>)
        ELSE Some(<<"\n", "\n">>)
    ELSE IF tag.tag = "Link" THEN Some(<<"]", "(">> \o tag.s \o <<")">>)
    ELSE IF tag.tag = "Paragraph" THEN Some(<<"\n", "\n">>)
    ELSE IF tag.tag = "Strong" THEN Some(<<"**">>)
    ELSE IF tag.tag = "Emphasis" THEN Some(<<"*">>)
    ELSE IF tag.tag = "Strikethrough" THEN Some(<<"~~">>)
    ELSE Some(<<>>)

MdState == [out |-> <<>>, tag_stack |-> <<>>, event_count |-> <<>>, ok |-> TRUE]

Bump(event_count) ==
    IF event_count = <<>> THEN event_count
    ELSE [event_count EXCEPT ![Len(event_count)] = @ + 1]

LastOr0(event_count) == IF event_count = <<>> THEN 0 ELSE Last(event_count)

\* one turn of render's loop
MdEvent(st, event) ==
    LET ec == Bump(st.event_count)
    IN
    IF ~st.ok THEN st
    ELSE IF event.k = "Start" THEN
        LET t == start_tag(TagOf(event.tag, event.s), st.tag_stack, LastOr0(ec))
        IN  IF IsSome(t)
            THEN [out |-> st.out \o Unwrap(t),
                  tag_stack |-> Append(st.tag_stack, TagOf(event.tag, event.s)),
                  event_count |-> Append(ec, 0), ok |-> TRUE]
            ELSE [st EXCEPT !.ok = FALSE]
    ELSE IF event.k = "End" THEN
        LET stack == IF st.tag_stack = <<>> THEN <<>> ELSE Front(st.tag_stack)
            ec2 == IF ec = <<>> THEN <<>> ELSE Front(ec)
            t == end_tag(TagOf(event.tag, event.s), stack)
        IN  IF IsSome(t)
            THEN [out |-> st.out \o Unwrap(t), tag_stack |-> stack,
                  event_count |-> ec2, ok |-> TRUE]
            ELSE [st EXCEPT !.ok = FALSE]
    ELSE IF event.k = "Text" THEN
        IF st.tag_stack # <<>> /\ Last(st.tag_stack).tag = "Indented"
        THEN [st EXCEPT !.out = @ \o <<"    ">> \o event.s, !.event_count = ec]
        ELSE IF st.tag_stack # <<>> /\ Head(st.tag_stack).tag = "BlockQuote"
        THEN [st EXCEPT !.out = @ \o <<">">> \o event.s, !.event_count = ec]
        ELSE [st EXCEPT !.out = @ \o event.s, !.event_count = ec]
    ELSE IF event.k = "Code" THEN
        [st EXCEPT !.out = @ \o <<"'">> \o event.s \o <<"'">>, !.event_count = ec]
    ELSE IF event.k = "SoftBreak" THEN
        [st EXCEPT !.out = @ \o <<"\n">>, !.event_count = ec]
    ELSE IF event.k = "HardBreak" THEN
        [st EXCEPT !.out = @ \o <<"\n", "\n">>, !.event_count = ec]
    ELSE IF event.k = "Rule" THEN
        [st EXCEPT !.out = @ \o <<"-----", "\n">>, !.event_count = ec]
    ELSE IF event.k = "Html" THEN
        [st EXCEPT !.out = @ \o event.s, !.event_count = ec]
    \* todo!(): FootnoteReference, TaskListMarker
    ELSE [st EXCEPT !.ok = FALSE]

\* render's loop over the events, by halves; nothing follows an abort
RECURSIVE MdFold(_, _)
MdFold(st, evs) ==
    IF evs = <<>> \/ ~st.ok THEN st
    ELSE IF Len(evs) = 1 THEN MdEvent(st, evs[1])
    ELSE MdFold(MdFold(st, SubSeq(evs, 1, Len(evs) \div 2)),
                SubSeq(evs, Len(evs) \div 2 + 1, Len(evs)))

\* md::render: [ok, out]; ok is FALSE when the serializer aborts
MdRender(evs) == MdFold(MdState, evs)

\* html::render: pulldown_cmark's own serializer, one fragment per event
HtmlOfEvent(e) ==
    IF e.k = "Html" THEN e.s
    ELSE IF e.k = "Start" THEN <<"<" , e.tag, ">">>
    ELSE IF e.k = "End" THEN <<"</", e.tag, ">">>
    ELSE IF e.k = "Code" THEN <<"<code>">> \o e.s \o <<"</code>">>
    ELSE IF e.k = "Text" THEN e.s
    ELSE <<"<", e.k, "/>">>

HtmlRender(evs) == Flatten([i \in 1..Len(evs) |-> HtmlOfEvent(evs[i])])

Cell(text) == <<StartEv("TableCell", <<>>), TextEv(text), EndEv("TableCell", <<>>)>>

Row(cells) ==
    <<StartEv("TableRow", <<>>)>>
    \o Flatten([i \in 1..Len(cells) |-> Cell(cells[i])])
    \o <<EndEv("TableRow", <<>>)>>

\* a cell is a token text
build_table(head, rows) ==
    LET align == [i \in 1..Len(head) |-> "None"]
    IN  <<StartEv("Table", align), StartEv("TableHead", <<>>)>>
        \o Flatten([i \in 1..Len(head) |-> Cell(head[i])])
        \o <<EndEv("TableHead", <<>>)>>
        \o Flatten([i \in 1..Len(rows) |-> Row(rows[i])])
        \o <<EndEv("Table", align)>>

(***************************************************************************)
(* Custom blocks.  One record shape for every CustomBlock implementation:  *)
(* type is the implementing struct, ot the OutputType of a ScriptBlock.    *)
(***************************************************************************)
NoData == [name |-> "", rows |-> <<>>]

Block(type, ot, header, code, lines, calls, dat) ==
    [type |-> type, ot |-> ot, header |-> header, code |-> code,
     lines |-> lines, calls |-> calls, dat |-> dat]

NoBlock == Block("", "", HeaderEmpty(""), <<>>, <<>>, <<>>, NoData)

\* the field names datasets use, in BTreeMap (ascending) order
KeyOrder == <<"a", "b">>

\* serde_yaml::from_str::<DataBlock>: Some(data), or None on Err.  A body is
\*   name N / data / - k v k v ... (one line per row) / # comment
ParseData(body) ==
    LET ls == SelectSeq(Lines(body), LAMBDA l : l # <<>> /\ Head(l) # "#")
        rowsOk == \A i \in 3..Len(ls) :
                      /\ Head(ls[i]) = "-"
                      /\ (Len(ls[i]) - 1) % 2 = 0
                      /\ Cardinality({p[1] : p \in Pairs(Tail(ls[i]))}) = (Len(ls[i]) - 1) \div 2
    IN  IF Len(ls) >= 2 /\ Len(ls[1]) = 2 /\ ls[1][1] = "name" /\ ls[2] = <<"data">> /\ rowsOk
        THEN Some([name |-> ls[1][2],
                   rows |-> [i \in 1..(Len(ls) - 2) |-> Pairs(Tail(ls[i + 2]))]])
        ELSE None

SortedPairs(row) ==
    Flatten([i \in 1..Len(KeyOrder) |->
        IF \E p \in row : p[1] = KeyOrder[i]
        THEN LET p == CHOOSE q \in row : q[1] = KeyOrder[i] IN <<p[1], p[2]>>
        ELSE <<>>])

\* serde_yaml::to_string(data)
DataToYaml(d) ==
    <<"name", d.name, "\n", "data", "\n">>
    \o Flatten([i \in 1..Len(d.rows) |-> <<"-">> \o SortedPairs(d.rows[i]) \o <<"\n">>])

\* Runtime::add_constant
add_constant(rt, d) ==
    [rt EXCEPT !.scope = {e \in rt.scope : e.name # d.name}
                         \cup {Entry(d.name, "array", TRUE, d.rows)}]

Floats == <<"0.0", "1.0", "2.0", "3.0", "4.0", "5.0", "6.0", "7.0", "8.0", "9.0">>
IsNumber(t) == IsDigit(t) \/ t \in Range(Floats)
\* an f32 read from YAML and written back
NormFloat(t) == IF IsDigit(t) THEN Floats[DigitValue(t) + 1] ELSE t

\* serde_yaml::from_str::<PlottersBlock>: Some([title, nums]) or None.  A body is
\*   type LineChart / title T / one line of numbers
ParsePlotters(body) ==
    LET ls == Lines(body)
    IN  IF Len(ls) = 3 /\ ls[1] = <<"type", "LineChart">>
           /\ Len(ls[2]) = 2 /\ ls[2][1] = "title"
           /\ \A i \in 1..Len(ls[3]) : IsNumber(ls[3][i])
        THEN Some([title |-> ls[2][2],
                   nums |-> [i \in 1..Len(ls[3]) |-> NormFloat(ls[3][i])]])
        ELSE None

\* gv::DotParser::process: whether the body is a graph description
ParsesAsDot(body) == body # <<>> /\ Head(body) = "digraph"

(***************************************************************************)
(* CustomBlock::to_events.  The result is [ok, evs]; ok is FALSE where the *)
(* code is todo!().  order is the order in which the header's fields are   *)
(* iterated when the header is serialized.                                 *)
(***************************************************************************)
Events(evs) == [ok |-> TRUE, evs |-> evs]
Todo == [ok |-> FALSE, evs |-> <<>>]

Fence(props, text) ==
    <<StartEv("Fenced", props), TextEv(text), EndEv("Fenced", props)>>

FieldGet(header, key) ==
    IF \E p \in header.fields : p[1] = key
    THEN Some((CHOOSE p \in header.fields : p[1] = key)[2])
    ELSE None

\* serde_yaml::Value::as_str, as_bool, as_u64 of an optional field
AsStr(o) == IF IsSome(o) /\ ~IsNumber(Unwrap(o)) /\ Unwrap(o) \notin {"true", "false"}
            THEN o ELSE None
AsBool(o) == IF IsSome(o) /\ Unwrap(o) \in {"true", "false"}
             THEN Some(Unwrap(o) = "true") ELSE None
AsU64(o) == IF IsSome(o) /\ IsDigit(Unwrap(o)) THEN Some(DigitValue(Unwrap(o))) ELSE None

html_hide_with_title(title, evs) ==
    <<HtmlEv(<<"<details>", title>>)>> \o evs \o <<HtmlEv(<<"</details>">>)>>

HideIfTitled(header, evs) ==
    LET title == AsStr(FieldGet(header, "hidden_title"))
    IN  IF IsSome(title) THEN html_hide_with_title(Unwrap(title), evs) ELSE evs

ScriptLineHtml(line) ==
    IF line.lt = "Code" THEN HtmlEv(<<"<span code>">> \o line.s \o <<"</span>", "\n">>)
    ELSE HtmlEv(<<"<span output>", "//>">> \o line.s \o <<"</span>", "\n">>)

ScriptLineMd(line) ==
    (IF line.lt = "Code" THEN line.s ELSE <<"//>">> \o line.s) \o <<"\n">>

\* the non-empty lines of a text, each behind the prefix
Prefixed(prefix, text) ==
    [i \in 1..Len(SelectSeq(Lines(text), LAMBDA l : l # <<>>)) |->
        <<prefix>> \o SelectSeq(Lines(text), LAMBDA l : l # <<>>)[i]]

\* the cells of a row of values
Cells(vals) == [i \in 1..Len(vals) |-> <<vals[i]>>]

DataKeys(d) ==
    SelectSeq(KeyOrder, LAMBDA k : \E i \in 1..Len(d.rows) : \E p \in d.rows[i] : p[1] = k)

DataHead(d) == <<<<"#">>>> \o Cells(DataKeys(d))

DataRows(d) ==
    [i \in 1..Len(d.rows) |->
        <<FormatNum(i)>>
        \o [j \in 1..Len(DataKeys(d)) |->
               IF \E p \in d.rows[i] : p[1] = DataKeys(d)[j]
               THEN <<(CHOOSE p \in d.rows[i] : p[1] = DataKeys(d)[j])[2]>>
               ELSE <<>>]]

PlottersHtml(title, series) == <<HtmlEv(<<"<svg>", title>> \o Flatten(series))>>

\* the Markdown of a block that carries a rendered table: the text, then the
\* table's lines behind the prefix
TableFence(props, text, table_output, prefix) ==
    IF ~table_output.ok THEN Todo
    ELSE Events(Fence(props, text \o <<"\n">>
                             \o JoinLines(Prefixed(prefix, table_output.out))
                             \o <<"\n">>))

\* a table whose header is the row passed last
TableOfLastRow(b) ==
    build_table(Cells(Last(b.calls)),
                [i \in 1..(Len(b.calls) - 1) |-> Cells(b.calls[i])])

TableOf(b) ==
    build_table(Cells(Head(b.calls)),
                [i \in 1..(Len(b.calls) - 1) |-> Cells(b.calls[i + 1])])

ScriptBlockEvents(b, format, order) ==
    IF b.ot = "RunningScript" THEN
        IF format = "Html"
        THEN Events(HideIfTitled(b.header,
                 <<HtmlEv(<<"<div script>">>)>>
                 \o [i \in 1..Len(b.lines) |-> ScriptLineHtml(b.lines[i])]
                 \o <<HtmlEv(<<"</div>">>)>>))
        ELSE Events(Fence(HeaderToString(b.header, order),
                 Flatten([i \in 1..Len(b.lines) |-> ScriptLineMd(b.lines[i])])))
    ELSE IF b.ot = "Table" THEN
        IF format = "Html" THEN Events(TableOf(b))
        ELSE TableFence(HeaderToString(b.header, order),
                 JoinLines(SelectSeq(Lines(b.code), LAMBDA l : ~IsOutputComment(l))),
                 MdRender(TableOf(b)), "//>")
    ELSE IF b.ot = "Data" THEN
        IF format = "Html"
        THEN Events(HideIfTitled(b.header, build_table(DataHead(b.dat), DataRows(b.dat))))
        ELSE TableFence(HeaderToString(b.header, order), DataToYaml(b.dat),
                 MdRender(build_table(DataHead(b.dat), DataRows(b.dat))), "#")
    ELSE IF b.ot = "Inline" THEN
        IF format = "Html" THEN Events(<<HtmlEv(<<"<code inline-script>">> \o b.code
                                               \o <<"</code>">>)>>)
        ELSE Events(<<CodeEv(<<"_">> \o b.code \o <<"_">>)>>)
    ELSE IF b.ot = "Chart" /\ format = "Html" THEN Events(PlottersHtml("Todo", b.calls))
    ELSE Todo

CodeBlockEvents(b, format) ==
    LET filename == AsStr(FieldGet(b.header, "filename"))
        language == AsStr(FieldGet(b.header, "language"))
        numbered == AsBool(FieldGet(b.header, "numbers"))
        numbers_start_at == AsU64(FieldGet(b.header, "numbers_start_at"))
        first == IF IsSome(numbers_start_at) THEN Unwrap(numbers_start_at) ELSE 1
        isNumbered == IF IsSome(numbered) THEN Unwrap(numbered) ELSE IsSome(filename)
        ls == Lines(b.code)
    IN  IF format = "Html"
        THEN Events(<<HtmlEv(<<"<pre", "file=">> \o filename \o <<"language=">>
                            \o (IF IsSome(language) THEN language ELSE <<"none">>)
                            \o (IF isNumbered THEN <<"numbered">> ELSE <<>>) \o <<">">>)>>
                    \o [i \in 1..Len(ls) |->
                           HtmlEv(<<"<span">> \o FormatNum(i - 1 + first) \o <<">">>
                                  \o ls[i] \o <<"</span>", "\n">>)]
                    \o <<HtmlEv(<<"</pre>">>)>>)
        ELSE Events(Fence(HeaderToString(HeaderEmpty("Code"), <<>>), b.code))

PlottersBlockEvents(b, format) ==
    IF format = "Md"
    THEN Events(Fence(HeaderToString(HeaderEmpty("Plotters"), <<>>),
                      <<"type", "LineChart", "\n", "title", b.code[1], "\n">>
                      \o Flatten(b.calls) \o <<"\n">>))
    ELSE Events(PlottersHtml(b.code[1], b.calls))

GraphBlockEvents(b, format) ==
    IF format = "Html" THEN Events(<<HtmlEv(<<"<svg>">> \o b.code)>>)
    ELSE Events(Fence(<<"{", "t", "Graph", "}">>, b.code))

to_events(b, format, order) ==
    IF b.type = "ScriptBlock" THEN ScriptBlockEvents(b, format, order)
    ELSE IF b.type = "CodeBlock" THEN CodeBlockEvents(b, format)
    ELSE IF b.type = "PlottersBlock" THEN PlottersBlockEvents(b, format)
    ELSE GraphBlockEvents(b, format)

(***************************************************************************)
(* The readers, in registration order (parse_markdown), and their          *)
(* capability predicates.                                                  *)
(***************************************************************************)
readers == <<"Script", "Code", "Plotters", "Graph">>

\* ScriptBlockReader::can_read_inline
ScriptCanReadInline(inline) ==
    StrLen(inline) > 3 /\ Head(inline) = "_" /\ Last(inline) = "_"

\* GraphBlockReader::can_read_block: the tag a Graph block writes in its header
GraphCanReadBlock(header) == header.t = "Graph"

can_read_block(reader, header) ==
    IF reader = "Script" THEN header.t \in {"DynamicTable", "DynamicChart", "ScriptGlobals", "Script", "Data"}
    ELSE IF reader = "Code" THEN header.t = "Code"
    ELSE IF reader = "Plotters" THEN header.t = "Plotters"
    ELSE GraphCanReadBlock(header)

can_read_inline(reader, inline) ==
    IF reader = "Script" THEN ScriptCanReadInline(inline) ELSE FALSE

\* a find that stops at the first registered reader, capable or not
FindFirstRegistered(can) ==
    IF \A i \in 1..Len(readers) : ~can[i] THEN None ELSE Some(readers[1])

\* Iterator::find over the readers, can[i] being the answer of reader i:
\* Some(reader) or None
FindReader(can) ==
    LET hits == {i \in 1..Len(readers) : can[i]}
    IN  IF hits = {} THEN None
        ELSE Some(readers[CHOOSE i \in hits : \A j \in hits : i <= j])

\* a reader's answer: res is "Some", "None", "Err" or "Abort"
Read(res, block, rt, dt) == [res |-> res, block |-> block, rt |-> rt, dt |-> dt]

\* a reader that answers a failed run with a block of what the run left
AnswerDespiteFailure(r, ot, header, code, dt) ==
    IF r.aborted THEN Read("Abort", NoBlock, r.rt, dt)
    ELSE IF ot = "" THEN Read("None", NoBlock, r.rt, dt)
    ELSE Read("Some", Block("ScriptBlock", ot, header, code,
                            IF ot = "RunningScript" THEN r.val ELSE <<>>,
                            IF ot = "RunningScript" THEN <<>> ELSE r.val, NoData),
              r.rt, dt)

\* the reader's answer to the runtime's result r
Answer(r, ot, header, code, dt) ==
    IF r.aborted THEN Read("Abort", NoBlock, r.rt, dt)
    ELSE IF ~r.ok THEN Read("Err", NoBlock, r.rt, dt)
    ELSE IF ot = "" THEN Read("None", NoBlock, r.rt, dt)
    ELSE Read("Some", Block("ScriptBlock", ot, header, code,
                            IF ot = "RunningScript" THEN r.val ELSE <<>>,
                            IF ot = "RunningScript" THEN <<>> ELSE r.val, NoData),
              r.rt, dt)

\* the reader's answer to the parsed dataset d
DataAnswer(d, header, rt, dt) ==
    IF IsSome(d)
    THEN Read("Some", Block("ScriptBlock", "Data", header, <<>>, <<>>, <<>>, Unwrap(d)),
              add_constant(rt, Unwrap(d)),
              {x \in dt : x.name # Unwrap(d).name} \cup {Unwrap(d)})
    ELSE Read("Err", NoBlock, rt, dt)

ScriptReadBlock(rt, dt, header, body) ==
    IF header.t = "Script"
    THEN Answer(run_block(rt, body), "RunningScript", header, <<>>, dt)
    ELSE IF header.t = "ScriptGlobals"
    THEN Answer(add_globals(rt, body), "", header, <<>>, dt)
    ELSE IF header.t = "DynamicTable"
    THEN Answer(generate_table(rt, body), "Table", header, body, dt)
    ELSE IF header.t = "DynamicChart"
    THEN Answer(generate_chart(rt, body), "Chart", header, body, dt)
    ELSE IF header.t = "Data" THEN DataAnswer(ParseData(body), header, rt, dt)
    ELSE Read("Err", NoBlock, rt, dt)

\* input.split(" // >").next()
RECURSIVE BeforeOutputComment(_)
BeforeOutputComment(toks) ==
    IF toks = <<>> \/ Head(toks) = "//>" THEN <<>>
    ELSE <<Head(toks)>> \o BeforeOutputComment(Tail(toks))

ScriptReadInline(rt, dt, inline) ==
    LET inner == SubSeq(inline, 2, Len(inline) - 1)
        r == eval_line(rt, inner)
    IN  IF r.ok
        THEN Read("Some", Block("ScriptBlock", "Inline", HeaderEmpty(""),
                                BeforeOutputComment(inner) \o <<"//>">> \o r.val,
                                <<>>, <<>>, NoData), r.rt, dt)
        ELSE Read("Err", NoBlock, r.rt, dt)

PlottersReadBlock(rt, dt, header, body) ==
    LET d == ParsePlotters(body)
    IN  IF header.t # "Plotters" THEN Read("Abort", NoBlock, rt, dt)
        ELSE IF IsSome(d)
        THEN Read("Some", Block("PlottersBlock", "", HeaderEmpty(""), <<Unwrap(d).title>>,
                                <<>>, <<Unwrap(d).nums>>, NoData), rt, dt)
        ELSE Read("Err", NoBlock, rt, dt)

GraphReadBlock(rt, dt, header, body) ==
    IF ParsesAsDot(body)
    THEN Read("Some", Block("GraphBlock", "", HeaderEmpty(""), body, <<>>, <<>>, NoData),
              rt, dt)
    ELSE Read("Err", NoBlock, rt, dt)

read_block(reader, rt, dt, header, body) ==
    IF reader = "Script" THEN ScriptReadBlock(rt, dt, header, body)
    ELSE IF reader = "Code"
    THEN Read("Some", Block("CodeBlock", "", header, body, <<>>, <<>>, NoData), rt, dt)
    ELSE IF reader = "Plotters" THEN PlottersReadBlock(rt, dt, header, body)
    ELSE GraphReadBlock(rt, dt, header, body)

\* only the script reader overrides read_inline; the default is unimplemented!()
read_inline(reader, rt, dt, inline) ==
    IF reader = "Script" THEN ScriptReadInline(rt, dt, inline)
    ELSE Read("Abort", NoBlock, rt, dt)

(***************************************************************************)
(* Extended events.                                                        *)
(***************************************************************************)
NoEv == Ev("", "", <<>>)
XEv(x, e, b, id, body, head) ==
    [x |-> x, e |-> e, b |-> b, id |-> id, body |-> body, head |-> head]
Standard(e) == XEv("Standard", e, NoBlock, 0, <<>>, {})
Custom(b) == XEv("Custom", NoEv, b, 0, <<>>, {})
External(body, head) == XEv("External", NoEv, NoBlock, 0, body, head)
Separator(id) == XEv("Separator", NoEv, NoBlock, id, <<>>, {})

(***************************************************************************)
(* parse_markdown: the two closures the tokenizer's events pass through.   *)
(***************************************************************************)
YamdrLabel(i) == <<"yamdr:">> \o FormatNum(i)
IsYamdr(label) == label # <<>> /\ Head(label) = "yamdr:"

\* the first closure with a boundary marker at every Start, nested or not
MarkEveryStart(event, lvl, ei) ==
    IF event.k = "Start" THEN
        [out |-> <<StartEv("FootnoteDefinition", YamdrLabel(ei)), event>>,
         level |-> lvl + 1, element_i |-> ei]
    ELSE IF event.k = "End" THEN
        IF lvl - 1 = 0
        THEN [out |-> <<event, EndEv("FootnoteDefinition", YamdrLabel(ei))>>,
              level |-> lvl - 1, element_i |-> ei + 1]
        ELSE [out |-> <<event>>, level |-> lvl - 1, element_i |-> ei]
    ELSE [out |-> <<event>>, level |-> lvl, element_i |-> ei]

\* the first closure: [out, level, element_i]
Mark(event, lvl, ei) ==
    IF event.k = "Start" THEN
        IF lvl + 1 = 1
        THEN [out |-> <<StartEv("FootnoteDefinition", YamdrLabel(ei)), event>>,
              level |-> lvl + 1, element_i |-> ei]
        ELSE [out |-> <<event>>, level |-> lvl + 1, element_i |-> ei]
    ELSE IF event.k = "End" THEN
        IF lvl - 1 = 0
        THEN [out |-> <<event, EndEv("FootnoteDefinition", YamdrLabel(ei + 1 - 1))>>,
              level |-> lvl - 1, element_i |-> ei + 1]
        ELSE [out |-> <<event>>, level |-> lvl - 1, element_i |-> ei]
    ELSE [out |-> <<event>>, level |-> lvl, element_i |-> ei]

\* a reader call as the history records it: what was read, in which runtime,
\* and the answer
Call(reader, kind, header, arg, rt, r) ==
    [reader |-> reader, kind |-> kind, header |-> header, arg |-> arg, rt |-> rt,
     res |-> r.res, block |-> r.block]

Called(st, r, reader, kind, header, arg) ==
    [st EXCEPT !.rt = r.rt, !.dt = r.dt,
               !.calls = Append(@, Call(reader, kind, header, arg, st.rt, r))]

\* what a reader's answer becomes (the match on the Option<Result<Option<..>>>)
Dispatched(st, r, what) ==
    IF r.res = "Some" THEN [st EXCEPT !.out = Append(@, Custom(r.block))]
    ELSE IF r.res = "None" THEN st
    ELSE IF r.res = "Err" THEN [st EXCEPT !.panic = what]
    ELSE [st EXCEPT !.panic = "reader aborted"]

\* a fenced block whose info string is no header, read as a Code block
FencedStartAsCode(st, event, block) ==
    IF IsSome(block) THEN [st EXCEPT !.ccb = block]
    ELSE [st EXCEPT !.ccb = Some(HeaderEmpty("Code"))]

\* Start of a fenced code block: the info string is tried as a header
FencedStart(st, event, block) ==
    IF IsSome(block) THEN [st EXCEPT !.ccb = block]
    ELSE [st EXCEPT !.out = Append(@, Standard(event))]

\* Text inside a fenced block whose header parsed
CustomText(st, event, header, reader) ==
    IF header.t = "External"
    THEN [st EXCEPT !.out = Append(@, External(event.s, header.fields))]
    ELSE IF IsSome(reader)
    THEN Dispatched(Called(st, read_block(Unwrap(reader), st.rt, st.dt, header, event.s),
                           Unwrap(reader), "block", header, event.s),
                    read_block(Unwrap(reader), st.rt, st.dt, header, event.s),
                    "not yet implemented: error reading block")
    ELSE [st EXCEPT !.panic = "not yet implemented: error custom block not implemented"]

\* an inline code span
InlineCode(st, event, reader) ==
    IF IsSome(reader)
    THEN Dispatched(Called(st, read_inline(Unwrap(reader), st.rt, st.dt, event.s),
                           Unwrap(reader), "inline", HeaderEmpty(""), event.s),
                    read_inline(Unwrap(reader), st.rt, st.dt, event.s),
                    "not yet implemented: error reading inline")
    ELSE [st EXCEPT !.out = Append(@, Standard(event))]

\* the second closure, on st = [out, ccb, rt, dt, panic, calls]
Classify(st, event) ==
    IF st.panic # "" THEN st
    ELSE IF event.k = "Start" /\ event.tag = "FootnoteDefinition" /\ IsYamdr(event.s) THEN
        IF IsSome(ParseU16(Tail(event.s)))
        THEN [st EXCEPT !.out = Append(@, Separator(Unwrap(ParseU16(Tail(event.s)))))]
        ELSE [st EXCEPT !.panic = "called unwrap on an Err value"]
    ELSE IF event.k = "End" /\ event.tag = "FootnoteDefinition" /\ IsYamdr(event.s) THEN st
    ELSE IF event.k = "Start" /\ event.tag = "Fenced"
    THEN FencedStart(st, event, ParseHeader(event.s))
    ELSE IF event.k = "End" /\ event.tag = "Fenced" THEN
        IF IsSome(st.ccb) THEN [st EXCEPT !.ccb = None]
        ELSE [st EXCEPT !.out = Append(@, Standard(event))]
    ELSE IF event.k = "Text" /\ IsSome(st.ccb)
    THEN CustomText(st, event, Unwrap(st.ccb),
                    FindReader([i \in 1..Len(readers) |->
                                   can_read_block(readers[i], Unwrap(st.ccb))]))
    ELSE IF event.k = "Code"
    THEN InlineCode(st, event, FindReader([i \in 1..Len(readers) |->
                                        can_read_inline(readers[i], event.s)]))
    ELSE [st EXCEPT !.out = Append(@, Standard(event))]

RECURSIVE ClassifyAll(_, _)
ClassifyAll(st, evs) ==
    IF evs = <<>> THEN st ELSE ClassifyAll(Classify(st, Head(evs)), Tail(evs))

\* one tokenizer event through both closures
Fed(st, m) ==
    [st |-> ClassifyAll(st, m.out), level |-> m.level, element_i |-> m.element_i]

\* parse_markdown on the tokenizer's events: the state after the last one,
\* or after the one that aborted
RECURSIVE ParseFrom(_, _)
ParseFrom(p, evs) ==
    IF evs = <<>> \/ p.st.panic # "" THEN p.st
    ELSE ParseFrom(Fed(p.st, Mark(Head(evs), p.level, p.element_i)), Tail(evs))

ParseEvents(evs) ==
    ParseFrom([st |-> [out |-> <<>>, ccb |-> None, rt |-> RuntimeInit, dt |-> {},
                       panic |-> "", calls |-> <<>>],
               level |-> 0, element_i |-> 0], evs)

(***************************************************************************)
(* Format::transform_extended_event, Format::render, render_markdown and   *)
(* render_blocks.                                                          *)
(***************************************************************************)
transform_extended_event(format, ee, order) ==
    IF ee.x = "Standard" THEN Events(<<ee.e>>)
    ELSE IF ee.x = "Custom" THEN to_events(ee.b, format, order)
    ELSE IF ee.x = "Separator" THEN Events(<<>>)
    ELSE Todo

\* the orders the header fields of each event can be serialized in
RECURSIVE OrderChoices(_)
OrderChoices(xevs) ==
    IF xevs = <<>> THEN {<<>>}
    ELSE {<<o>> \o rest : o \in (IF Head(xevs).x = "Custom"
                                   THEN Orders(Head(xevs).b.header.fields) ELSE {<<>>}),
                          rest \in OrderChoices(Tail(xevs))}

\* flat_map(transform_extended_event): [ok, evs]
Chain(t, rest) == [ok |-> t.ok /\ rest.ok, evs |-> t.evs \o rest.evs]

RECURSIVE Transformed(_, _, _)
Transformed(format, xevs, orders) ==
    IF xevs = <<>> THEN Events(<<>>)
    ELSE Chain(transform_extended_event(format, Head(xevs), Head(orders)),
               Transformed(format, Tail(xevs), Tail(orders)))

MdResult(md) == [ok |-> md.ok, out |-> IF md.ok THEN md.out ELSE <<>>]

\* Format::render of the transformed events: [ok, out]
Rendering(format, t) ==
    IF ~t.ok THEN [ok |-> FALSE, out |-> <<>>]
    ELSE IF format = "Md" THEN MdResult(MdRender(t.evs))
    ELSE [ok |-> TRUE, out |-> HtmlRender(t.evs)]

RenderEvents(format, xevs, orders) == Rendering(format, Transformed(format, xevs, orders))

UnwrapOr(o, default) == IF IsSome(o) THEN Unwrap(o) ELSE default

\* a page that takes the body fragment in standalone mode only
PageStandaloneOnly(options, format, out) ==
    IF format = "Html" THEN
        IF options.standalone
        THEN <<"<!DOCTYPE html>", "<style>", "STYLE", "</style>">>
             \o options.additional_head
             \o <<"<body>">> \o options.additional_body
             \o <<"<div content>">> \o out \o <<"</div>">>
        ELSE <<"<style>", "STYLE", "</style>">>
             \o <<"<div content>">> \o out \o <<"</div>">>
    ELSE out

\* the page render_markdown puts around the rendered events
Page(options, format, out) ==
    IF format = "Html" THEN
        IF options.standalone
        THEN <<"<!DOCTYPE html>", "<style>", "STYLE", "</style>">>
             \o options.additional_head
             \o <<"<body>">> \o options.additional_body
             \o <<"<div content>">> \o out \o <<"</div>">>
        ELSE <<"<style>", "STYLE", "</style>">>
             \o options.additional_body
             \o <<"<div content>">> \o out \o <<"</div>">>
    ELSE out

YamdrOptions ==
    [standalone : BOOLEAN,
     additional_head : {None, Some("HEAD")},
     additional_body : {None, Some("BODY")},
     format : {None, Some("Html"), Some("Md")}]

NoOutput == [options |-> [standalone |-> FALSE, additional_head |-> None,
                          additional_body |-> None, format |-> None],
             format |-> "", text |-> <<>>]

\* the fold of render_blocks: [ok, groups], a group being [id, events]
RECURSIVE FoldGroups(_, _)
FoldGroups(acc, xevs) ==
    IF xevs = <<>> THEN [ok |-> TRUE, groups |-> acc]
    ELSE IF Head(xevs).x = "Separator"
    THEN FoldGroups(Append(acc, [id |-> Head(xevs).id, events |-> <<>>]), Tail(xevs))
    \* acc.last_mut().unwrap()
    ELSE IF acc = <<>> THEN [ok |-> FALSE, groups |-> acc]
    ELSE FoldGroups([acc EXCEPT ![Len(acc)].events = Append(@, Head(xevs))], Tail(xevs))

MarkdownBlock(id, html, markdown, external) ==
    [id |-> id, html |-> html, markdown |-> markdown, external |-> external]

\* the map of render_blocks on one group: [ok, block]
Rendered(id, html, md) ==
    [ok |-> html.ok /\ md.ok, block |-> MarkdownBlock(id, html.out, md.out, None)]

RenderGroup(g, orders) ==
    IF Len(g.events) = 1 /\ g.events[1].x = "External"
    THEN [ok |-> TRUE,
          block |-> MarkdownBlock(g.id, <<>>, <<>>,
                        Some([body |-> g.events[1].body, head |-> g.events[1].head]))]
    ELSE Rendered(g.id, RenderEvents("Html", g.events, orders),
                  RenderEvents("Md", g.events, orders))

Cons(r, rest) == [ok |-> r.ok /\ rest.ok, blocks |-> <<r.block>> \o rest.blocks]

\* orders holds one entry per event, the separator of each group included
RECURSIVE RenderGroups(_, _)
RenderGroups(groups, orders) ==
    IF groups = <<>> THEN [ok |-> TRUE, blocks |-> <<>>]
    ELSE Cons(RenderGroup(Head(groups), SubSeq(orders, 2, 1 + Len(Head(groups).events))),
              RenderGroups(Tail(groups),
                           SubSeq(orders, 2 + Len(Head(groups).events), Len(orders))))

(***************************************************************************)
(* The documents: the event streams the tokenizer delivers for a document  *)
(* of up to MaxElems top-level elements.                                   *)
(***************************************************************************)
Para(inner) == <<StartEv("Paragraph", <<>>)>> \o inner \o <<EndEv("Paragraph", <<>>)>>
Fenced(info, chunks) ==
    <<StartEv("Fenced", info)>> \o [i \in 1..Len(chunks) |-> TextEv(chunks[i])]
    \o <<EndEv("Fenced", info)>>
Footnote(label) ==
    <<StartEv("FootnoteDefinition", label)>> \o Para(<<TextEv(<<"a">>)>>)
    \o <<EndEv("FootnoteDefinition", label)>>
Quote(inner) == <<StartEv("BlockQuote", <<>>)>> \o inner \o <<EndEv("BlockQuote", <<>>)>>

\* the info string of a fenced block with a header
Info(t, fields) == <<"{", "t", t>> \o fields \o <<"}">>

Elements ==
    { Para(<<TextEv(<<"a">>)>>), <<RuleEv>>, <<HtmlEv(<<"<div>", "\n">>)>>,
      Footnote(<<"note">>), Footnote(<<"yamdr:", "0">>), Footnote(<<"yamdr:", "x">>),
      Fenced(<<"rust">>, << <<"a", "\n">> >>),
      Fenced(<<"{", "x", "1", "}">>, << <<"a", "\n">> >>),
      Fenced(Info("Script", <<>>), << <<"debug", "1", "\n">> >>),
      Fenced(Info("Script", <<"hidden_title", "abc", "class", "wide">>), << <<"let", "x", "1", "\n">> >>),
      Fenced(Info("Script", <<>>), << <<"call", "f", "\n">> >>),
      Fenced(Info("ScriptGlobals", <<>>), << <<"//", "\n", "fn", "f", "debug", "1", "\n">> >>),
      Fenced(Info("DynamicTable", <<>>), << <<"let", "x", "1", "\n", "row", "x", "\n">> >>),
      Fenced(Info("DynamicChart", <<>>), << <<"plot", "1", "2", "\n">> >>),
      Fenced(Info("Code", <<"language", "rust">>), << <<"a", "\n">> >>),
      Fenced(Info("External", <<"test", "123">>), << <<"a", "\n">> >>),
      Fenced(Info("External", <<"test", "123">>), <<>>),
      Fenced(Info("Foo", <<>>), << <<"a", "\n">> >>),
      Fenced(Info("Foo", <<>>), <<>>),
      Quote(Fenced(Info("Code", <<"language", "rust">>), << <<"a", "\n">>, <<"b", "\n">> >>)) }
    \cup { Para(<<CodeEv(c)>>) :
            c \in { <<"c">>, <<"_", "1", "_">>, <<"_", "10", "_">>,
                    <<"_", "1", "//>", "1", "_">> } }

Docs == {Flatten(es) : es \in SeqsUpTo(Elements, MaxElems)}

\* the elements of the documents of script-bearing blocks, inline expressions
\* and a dataset; such a document has up to MaxScript of them
ScriptElements ==
    { Fenced(Info("Script", <<>>), << <<"let", "x", "1", "\n">> >>),
      Fenced(Info("Script", <<>>),
             << <<"debug", "x", "\n", "//>", "9", "\n", "set", "x", "2", "\n",
                  "debug", "x", "\n">> >>),
      Fenced(Info("Script", <<>>), << <<"let", "d", "1", "\n">> >>),
      Fenced(Info("Script", <<>>), << <<"bad", "\n">> >>),
      Fenced(Info("ScriptGlobals", <<>>),
             << <<"let", "x", "3", "\n", "debug", "1", "\n", "fn", "f", "ret", "7", "\n">> >>),
      Fenced(Info("ScriptGlobals", <<>>), << <<"fn", "f", "ret", "8", "\n">> >>),
      Fenced(Info("ScriptGlobals", <<>>), << <<"bad", "\n">> >>),
      Fenced(Info("DynamicChart", <<>>), << <<"plot", "x", "2", "\n">> >>),
      Fenced(Info("Data", <<>>),
             << <<"name", "d", "\n", "data", "\n", "-", "a", "1", "\n",
                  "-", "a", "2", "b", "3", "\n">> >>),
      Fenced(Info("DynamicTable", <<>>),
             << <<"row", "1", "2", "\n", "//>", "9", "\n", "row", "3", "4", "\n",
                  "row", "x", "6", "\n">> >>),
      Para(<<CodeEv(<<"_", "x", "//>", "5", "_">>)>>),
      Para(<<CodeEv(<<"_", "call", "f", "_">>)>>),
      Para(<<CodeEv(<<"_", "idx", "d", "1", "a", "_">>)>>) }

(***************************************************************************)
(* The tokenizer (pulldown_cmark::Parser::new_ext) on the text the         *)
(* Markdown serializer writes: fenced blocks, thematic breaks, HTML blocks *)
(* and paragraphs of text and inline code.  Adjacent text of one block is  *)
(* one Text event.                                                         *)
(***************************************************************************)
Drop(toks, n) == IF n >= Len(toks) THEN <<>> ELSE SubSeq(toks, n + 1, Len(toks))

\* the first line, without its line break
RECURSIVE LineOf(_)
LineOf(toks) ==
    IF toks = <<>> \/ Head(toks) = "\n" THEN <<>>
    ELSE <<Head(toks)>> \o LineOf(Tail(toks))

\* the lines before the closing fence, each with its line break
RECURSIVE FenceBody(_)
FenceBody(toks) ==
    IF toks = <<>> \/ Head(toks) = "~~~" THEN <<>>
    ELSE LET l == LineOf(toks)
         IN  IF Len(l) = Len(toks) THEN l
             ELSE l \o <<"\n">> \o FenceBody(Drop(toks, Len(l) + 1))

\* the lines before the next line that opens with one of stops (a blank line
\* opens with its line break), the last without its line break
RECURSIVE ParaOf(_, _)
ParaOf(toks, stops) ==
    LET l == LineOf(toks)
        rest == Drop(toks, Len(l) + 1)
    IN  IF l = <<>> THEN <<>>
        ELSE IF rest = <<>> \/ Head(rest) \in stops THEN l
        ELSE l \o <<"\n">> \o ParaOf(rest, stops)

\* what ends a paragraph: a blank line, or a fence, an HTML block or an
\* underline on the next line
Interrupts == {"\n", "~~~", "<div>", "-----"}

\* the heading an underlined text is
Underlined(inner) ==
    <<StartEv("Heading", <<"2">>)>> \o inner \o <<EndEv("Heading", <<"2">>)>>

RECURSIVE UpTo(_, _)
UpTo(toks, stops) ==
    IF toks = <<>> \/ Head(toks) \in stops THEN <<>>
    ELSE <<Head(toks)>> \o UpTo(Tail(toks), stops)

RECURSIVE Inline(_)
Inline(toks) ==
    IF toks = <<>> THEN <<>>
    ELSE IF Head(toks) = "'"
    THEN <<CodeEv(UpTo(Tail(toks), {"'"}))>>
         \o Inline(Drop(toks, Len(UpTo(Tail(toks), {"'"})) + 2))
    ELSE IF Head(toks) = "\n" THEN <<Ev("SoftBreak", "", <<>>)>> \o Inline(Tail(toks))
    ELSE <<TextEv(UpTo(toks, {"'", "\n"}))>>
         \o Inline(Drop(toks, Len(UpTo(toks, {"'", "\n"}))))

RECURSIVE Tokenize(_)
Tokenize(toks) ==
    IF toks = <<>> THEN <<>>
    ELSE IF Head(toks) = "\n" THEN Tokenize(Tail(toks))
    ELSE IF Head(toks) = "~~~" THEN
        LET info == LineOf(Tail(toks))
            rest == Drop(toks, Len(info) + 2)
            body == FenceBody(rest)
        IN  <<StartEv("Fenced", info)>>
            \o (IF body = <<>> THEN <<>> ELSE <<TextEv(body)>>)
            \o <<EndEv("Fenced", info)>>
            \o Tokenize(Drop(rest, Len(body) + 1))
    ELSE IF Head(toks) = "-----" THEN <<RuleEv>> \o Tokenize(Tail(toks))
    ELSE IF Head(toks) = "<div>"
    THEN <<HtmlEv(ParaOf(toks, {"\n"}) \o <<"\n">>)>>
         \o Tokenize(Drop(toks, Len(ParaOf(toks, {"\n"})) + 1))
    ELSE LET text == ParaOf(toks, Interrupts)
             rest == Drop(toks, Len(text) + 1)
         IN  IF rest # <<>> /\ Head(rest) = "-----"
             THEN Underlined(Inline(text)) \o Tokenize(Drop(rest, 2))
             ELSE Para(Inline(text)) \o Tokenize(rest)

(***************************************************************************)
(* One render call: parse_markdown pulls the tokenizer's events one by one *)
(* through both closures, then render_markdown or render_blocks renders.   *)
(***************************************************************************)
Begin(docs) ==
    /\ input \in docs
    /\ pos = 1
    /\ level = 0
    /\ element_i = 0
    /\ current_custom_block = None
    /\ runtime = RuntimeInit
    /\ data = {}
    /\ events = <<>>
    /\ pc = "parse"
    /\ panic = ""
    /\ output = NoOutput
    /\ blocks = <<>>
    /\ reads = <<>>

Init == Begin(Docs)

InitScript == Begin({Flatten(es) : es \in SeqsUpTo(ScriptElements, MaxScript)})

\* the state the second closure leaves
Store(st) ==
    /\ events' = st.out
    /\ current_custom_block' = st.ccb
    /\ runtime' = st.rt
    /\ data' = st.dt
    /\ reads' = st.calls
    /\ panic' = st.panic
    /\ pc' = IF st.panic # "" THEN "panic" ELSE "parse"

ParseStep ==
    /\ pc = "parse"
    /\ pos <= Len(input)
    /\ level' = Mark(input[pos], level, element_i).level
    /\ element_i' = Mark(input[pos], level, element_i).element_i
    /\ Store(ClassifyAll([out |-> events, ccb |-> current_custom_block,
                          rt |-> runtime, dt |-> data, panic |-> "", calls |-> reads],
                         Mark(input[pos], level, element_i).out))
    /\ pos' = pos + 1
    /\ UNCHANGED <<input, output, blocks>>

\* parser.collect() returns
Collect ==
    /\ pc = "parse"
    /\ pos > Len(input)
    /\ pc' = "parsed"
    /\ UNCHANGED <<input, pos, level, element_i, current_custom_block, runtime, data,
                   events, panic, output, blocks, reads>>

Show(options, format, r) ==
    IF r.ok
    THEN /\ output' = [options |-> options, format |-> format,
                       text |-> Page(options, format, r.out)]
         /\ pc' = "rendered"
         /\ panic' = panic
    ELSE /\ output' = [NoOutput EXCEPT !.options = options, !.format = format]
         /\ pc' = "panic"
         /\ panic' = "not yet implemented"

RenderMarkdown ==
    /\ pc = "parsed"
    /\ \E options \in YamdrOptions, orders \in OrderChoices(events) :
          Show(options, UnwrapOr(options.format, "Html"),
               RenderEvents(UnwrapOr(options.format, "Html"), events, orders))
    /\ UNCHANGED <<input, pos, level, element_i, current_custom_block, runtime, data,
                   events, blocks, reads>>

\* done is where the call is once it has returned
StoreBlocks(r, done) ==
    IF r.ok
    THEN /\ blocks' = r.blocks
         /\ pc' = done
         /\ panic' = panic
    ELSE /\ blocks' = blocks
         /\ pc' = "panic"
         /\ panic' = "not yet implemented"

Segment(f, orders, done) ==
    IF ~f.ok
    THEN /\ pc' = "panic"
         /\ panic' = "called unwrap on a None value"
         /\ blocks' = blocks
    ELSE StoreBlocks(RenderGroups(f.groups, orders), done)

RenderBlocks ==
    /\ pc = "parsed"
    /\ \E orders \in OrderChoices(events) :
          Segment(FoldGroups(<<>>, events), orders, "segmented")
    /\ UNCHANGED <<input, pos, level, element_i, current_custom_block, runtime, data,
                   events, output, reads>>

\* what the owner of the blocks writes into one of them between render_blocks
\* and rerender: one paragraph, or two, without a line break at the end
EditedFragments == {<<"b">>, <<"b", "\n", "\n", "c">>}

\* the blocks are public: their owner replaces the Markdown of one
Edit ==
    /\ pc = "segmented"
    /\ \E i \in 1..Len(blocks), fragment \in EditedFragments :
          blocks' = [blocks EXCEPT ![i].markdown = fragment]
    /\ pc' = "edited"
    /\ UNCHANGED <<input, pos, level, element_i, current_custom_block, runtime, data,
                   events, panic, output, reads>>

\* rerender: the fragments joined by a line break
MarkdownDocument(bs) == JoinLines([i \in 1..Len(bs) |-> bs[i].markdown])

\* *self = render_blocks(..), p being what parse_markdown made of the text
Replaced(p) ==
    IF p.panic # ""
    THEN /\ pc' = "panic"
         /\ panic' = p.panic
         /\ blocks' = blocks
    ELSE \E orders \in OrderChoices(p.out) :
             Segment(FoldGroups(<<>>, p.out), orders, "rerendered")

Rerender ==
    /\ pc \in {"segmented", "edited"}
    /\ Replaced(ParseEvents(Tokenize(MarkdownDocument(blocks))))
    /\ UNCHANGED <<input, pos, level, element_i, current_custom_block, runtime, data,
                   events, output, reads>>

\* block quotes whose lines inline markup divides: two lines of plain text,
\* a line with emphasis in it, a line that opens with inline code, a line
\* with a link in it
QuoteElements ==
    { Quote(Para(<<TextEv(<<"a">>), Ev("SoftBreak", "", <<>>), TextEv(<<"b">>)>>)),
      Quote(Para(<<TextEv(<<"a">>), StartEv("Emphasis", <<>>), TextEv(<<"b">>),
                   EndEv("Emphasis", <<>>), TextEv(<<"c">>)>>)),
      Quote(Para(<<CodeEv(<<"c">>), TextEv(<<"a">>)>>)),
      Quote(Para(<<TextEv(<<"a">>), StartEv("Link", <<"u">>), TextEv(<<"b">>),
                   EndEv("Link", <<"u">>)>>)) }

InitQuote == Begin({Flatten(es) : es \in SeqsUpTo(QuoteElements, MaxQuote)})

\* one render call, with no edit after it
NextRender == ParseStep \/ Collect \/ RenderMarkdown \/ RenderBlocks

SpecQuote == InitQuote /\ [][NextRender]_vars

Next == ParseStep \/ Collect \/ RenderMarkdown \/ RenderBlocks \/ Edit \/ Rerender

Spec == Init /\ [][Next]_vars

SpecScript == InitScript /\ [][Next]_vars

\* table-generation bodies: one that declares a variable and never calls
\* row, one that calls a function of the globals and never calls row, one
\* row, two rows, a row of an unknown variable, one that does not compile;
\* with the globals and the paragraph they stand next to
TableElements ==
    { Fenced(Info("DynamicTable", <<>>), << <<"let", "x", "1", "\n">> >>),
      Fenced(Info("DynamicTable", <<>>), << <<"call", "f", "\n">> >>),
      Fenced(Info("DynamicTable", <<>>), << <<"row", "1", "2", "\n">> >>),
      Fenced(Info("DynamicTable", <<>>), << <<"row", "1", "2", "\n", "row", "3", "4", "\n">> >>),
      Fenced(Info("DynamicTable", <<>>), << <<"row", "y", "\n">> >>),
      Fenced(Info("DynamicTable", <<>>), << <<"bad", "\n">> >>),
      Fenced(Info("ScriptGlobals", <<>>), << <<"fn", "f", "ret", "7", "\n">> >>),
      Para(<<TextEv(<<"a">>)>>) }

InitTable == Begin({Flatten(es) : es \in SeqsUpTo(TableElements, MaxElems)})

SpecTable == InitTable /\ [][Next]_vars

(***************************************************************************)
(* Properties.                                                             *)
(***************************************************************************)
IsSeparator(ee) == ee.x = "Separator"
Seps(xevs) == SelectSeq(xevs, IsSeparator)
NonSeps(xevs) == SelectSeq(xevs, LAMBDA ee : ee.x # "Separator")
Consumed == SubSeq(input, 1, pos - 1)

\* C1: for every document, render_blocks puts every extended event of
\* parse_markdown into exactly one block, and the block ids in output order
\* are 0, 1, .., n-1: it never fails on a document that opens with a leaf
\* token.
C1_SegmentationExhaustive ==
    /\ panic # "called unwrap on a None value"
    /\ pc = "segmented" =>
          /\ Len(blocks) = Len(FoldGroups(<<>>, events).groups)
          /\ Flatten([i \in 1..Len(blocks) |-> FoldGroups(<<>>, events).groups[i].events])
                = NonSeps(events)
          /\ \A i \in 1..Len(blocks) : blocks[i].id = i - 1

\* the top-level elements opened in a well-nested event sequence
RECURSIVE CountTop(_, _)
CountTop(evs, depth) ==
    IF evs = <<>> THEN 0
    ELSE IF Head(evs).k = "Start"
    THEN (IF depth = 0 THEN 1 ELSE 0) + CountTop(Tail(evs), depth + 1)
    ELSE IF Head(evs).k = "End" THEN CountTop(Tail(evs), depth - 1)
    ELSE CountTop(Tail(evs), depth)

\* C2: Separators come from the adapter's own markers only: there is one
\* per top-level element opened, numbered 0, 1, .. in order, and every event
\* of a user-written footnote definition, whatever its label, is passed on as
\* a Standard event without failing the render.
C2_SeparatorsOnlyFromAdapter ==
    /\ panic # "called unwrap on an Err value"
    /\ pc # "panic" =>
          /\ Len(Seps(events)) = CountTop(Consumed, 0)
          /\ \A i \in 1..Len(Seps(events)) : Seps(events)[i].id = i - 1
          /\ \A i \in 1..(pos - 1) :
                input[i].tag = "FootnoteDefinition" => Standard(input[i]) \in Range(events)

GeneratorPending ==
    /\ IsSome(current_custom_block)
    /\ Unwrap(current_custom_block).t \in {"DynamicTable", "DynamicChart"}

\* C3: reading the body of a DynamicTable or DynamicChart block leaves the
\* persistent script scope as it was: no variable is added and none changes.
C3_GeneratorsLeaveScope ==
    [][GeneratorPending => runtime'.scope = runtime.scope]_vars

Sentinel(code) == code # <<>> /\ Head(code) = "_" /\ Last(code) = "_" /\ StrLen(code) > 2
RoutedInline(code) ==
    \E i \in 1..Len(reads) : reads[i].kind = "inline" /\ reads[i].arg = code

\* C4: an inline code span goes to the readers' inline dispatch exactly when
\* it begins and ends with '_' and is longer than 2; any other span is
\* emitted unchanged as a Standard Code event.
C4_InlineRouting ==
    \A i \in 1..(pos - 1) :
        input[i].k = "Code" =>
            IF Sentinel(input[i].s) THEN RoutedInline(input[i].s)
            ELSE ~RoutedInline(input[i].s) /\ Standard(input[i]) \in Range(events)

FormatUsed == output.format = UnwrapOr(output.options.format, "Html")
HeadShown == "HEAD" \in Range(output.text)
BodyShown == "BODY" \in Range(output.text)

\* C5 (as the specification states it): render_markdown uses Html when no
\* format is set, and the head and body fragments are in the output only
\* when the format is Html and standalone is set.
C5_FragmentsOnlyStandalone ==
    pc = "rendered" =>
        /\ FormatUsed
        /\ HeadShown <=> (output.format = "Html" /\ output.options.standalone
                          /\ IsSome(output.options.additional_head))
        /\ BodyShown <=> (output.format = "Html" /\ output.options.standalone
                          /\ IsSome(output.options.additional_body))

\* C5 (amended): render_markdown uses Html when no format is set; the head
\* fragment is in the output exactly when the format is Html and standalone
\* is set, the body fragment exactly when the format is Html, standalone or
\* not; Markdown output holds neither.
C5_FragmentsByFormat ==
    pc = "rendered" =>
        /\ FormatUsed
        /\ HeadShown <=> (output.format = "Html" /\ output.options.standalone
                          /\ IsSome(output.options.additional_head))
        /\ BodyShown <=> (output.format = "Html"
                          /\ IsSome(output.options.additional_body))

\* a non-standalone Html render that was given both fragments
C5_Witness ==
    /\ pc = "rendered"
    /\ output.format = "Html"
    /\ ~output.options.standalone
    /\ output.options.additional_head = Some("HEAD")
    /\ output.options.additional_body = Some("BODY")
    /\ BodyShown
    /\ ~HeadShown

\* the events are separators, paragraph brackets and custom blocks of these kinds
OnlyKinds(xevs, kinds) ==
    /\ \E i \in 1..Len(xevs) : xevs[i].x = "Custom"
    /\ \A i \in 1..Len(xevs) :
          \/ xevs[i].x = "Separator"
          \/ xevs[i].x = "Custom" /\ xevs[i].b.ot \in kinds
          \/ xevs[i].x = "Standard" /\ xevs[i].e.tag = "Paragraph"

\* rendering the Markdown text md to Markdown again gives md, whatever order
\* the header fields are written in
FixedPoint(md) ==
    /\ ParseEvents(Tokenize(md)).panic = ""
    /\ \A o \in OrderChoices(ParseEvents(Tokenize(md)).out) :
          RenderEvents("Md", ParseEvents(Tokenize(md)).out, o) = [ok |-> TRUE, out |-> md]

OutputLines(ls) == SelectSeq(ls, LAMBDA l : l.lt = "Output")

\* C6: the Markdown of a document of Script blocks renders to the same
\* Markdown again; and the lines of a Script block hold no earlier output
\* comment and exactly one output line per debug message of the run.
C6_ScriptRerenderIdempotent ==
    /\ (pc = "rendered" /\ output.format = "Md" /\ OnlyKinds(events, {"RunningScript"}))
          => FixedPoint(output.text)
    /\ \A i \in 1..Len(reads) :
          (reads[i].header.t = "Script" /\ reads[i].res = "Some") =>
              /\ Len(OutputLines(reads[i].block.lines))
                    = Len(RunAst(reads[i].arg, reads[i].rt.scope,
                                 reads[i].rt.globals, "").log)
              /\ \A j \in 1..Len(reads[i].block.lines) :
                    reads[i].block.lines[j].lt = "Code"
                        => ~IsOutputComment(reads[i].block.lines[j].s)

\* C7: the Markdown of a document of custom blocks other than Script blocks
\* (Code, DynamicTable, DynamicChart, inline expressions) exists and renders
\* to the same Markdown again.
C7_CustomMarkdownFixedPoint ==
    (pc = "parsed" /\ OnlyKinds(events, {"", "Table", "Chart", "Data", "Inline"})) =>
        \A o \in OrderChoices(events) :
            /\ RenderEvents("Md", events, o).ok
            /\ FixedPoint(RenderEvents("Md", events, o).out)

MdForm(evs) ==
    /\ evs # <<>>
    /\ evs[1].k = "Code" \/ (evs[1].k = "Start" /\ evs[1].tag = "Fenced")

\* C8: every custom block a reader returned gives an event list for Html and
\* for Md, and the Md list is not empty and opens a fenced block or is an
\* inline code span.
C8_BothFormats ==
    \A i \in 1..Len(events) :
        events[i].x = "Custom" =>
            \A o \in Orders(events[i].b.header.fields) :
                /\ to_events(events[i].b, "Html", o).ok
                /\ to_events(events[i].b, "Md", o).ok
                /\ MdForm(to_events(events[i].b, "Md", o).evs)

UnknownTag(e) ==
    /\ e.k = "Start" /\ e.tag = "Fenced"
    /\ IsSome(ParseHeader(e.s))
    /\ Unwrap(ParseHeader(e.s)).t # "External"
    /\ ~IsSome(FindReader([i \in 1..Len(readers) |->
                              can_read_block(readers[i], Unwrap(ParseHeader(e.s)))]))

\* C9: once the parse is past the opening of a fenced block whose header is
\* well formed, is not External and is accepted by no reader, the render has
\* stopped with the custom-block-not-implemented failure: the block is not
\* dropped.
C9_UnknownBlockSurfaces ==
    \A i \in 1..(pos - 2) :
        UnknownTag(input[i]) =>
            /\ pc = "panic"
            /\ panic = "not yet implemented: error custom block not implemented"

Malformed(e) == e.tag = "Fenced" /\ e.k \in {"Start", "End"} /\ ~IsSome(ParseHeader(e.s))
InMalformed(i) ==
    \/ Malformed(input[i])
    \/ input[i].k = "Text" /\ i > 1 /\ input[i - 1].k = "Start" /\ Malformed(input[i - 1])

\* C10: each event (Start, Text, End) of a fenced block whose info string is
\* no header is appended as a Standard event when it is parsed, so in the
\* original order; no reader is called for it and nothing fails.
C10_MalformedPassesThrough ==
    [][(pc = "parse" /\ pos <= Len(input) /\ InMalformed(pos)) =>
          /\ events' # <<>>
          /\ Last(events') = Standard(input[pos])
          /\ Len(NonSeps(events')) = Len(NonSeps(events)) + 1
          /\ reads' = reads
          /\ panic' = ""
          /\ pc' = "parse"]_vars

\* a parsed document whose fenced block has no header: its three events are
\* there as Standard events and no reader was called
C10_Witness ==
    /\ pc = "parsed"
    /\ reads = <<>>
    /\ \E i \in 1..(Len(input) - 2), j \in 1..(Len(events) - 2) :
          /\ input[i].k = "Start" /\ Malformed(input[i])
          /\ input[i + 1].k = "Text"
          /\ events[j] = Standard(input[i])
          /\ events[j + 1] = Standard(input[i + 1])
          /\ events[j + 2] = Standard(input[i + 2])

ScriptTags == {"Script", "ScriptGlobals", "DynamicTable", "DynamicChart"}

\* the host function the engine of a block with tag t has registered
Builtin(t) ==
    IF t = "DynamicTable" THEN "row" ELSE IF t = "DynamicChart" THEN "plot" ELSE ""

\* the call c had the scripting engine compile or run something
EngineRead(c) == c.reader = "Script" /\ (c.kind = "inline" \/ c.header.t \in ScriptTags)

\* the scripting engine reports a compilation or runtime failure in the call c
EngineFails(c) ==
    IF c.kind = "inline"
    THEN eval_line(c.rt, SubSeq(c.arg, 2, Len(c.arg) - 1)).err # ""
    ELSE \/ ~Compiles(c.arg)
         \/ /\ c.header.t # "ScriptGlobals"
            /\ RunAst(c.arg, c.rt.scope, c.rt.globals, Builtin(c.header.t)).err # ""

CustomCount == Len(SelectSeq(events, LAMBDA ee : ee.x = "Custom"))
SomeCount == Len(SelectSeq(reads, LAMBDA c : c.res = "Some"))

\* C11: when the scripting engine fails to compile or run a Script,
\* ScriptGlobals, DynamicTable or DynamicChart block or an inline expression,
\* the reader answers with an error and no block, and exactly then; that
\* error is the last reader call of the render, no event was made for it, and
\* the render has stopped with no output and no blocks returned.
C11_EngineFailureIsOneError ==
    /\ CustomCount = SomeCount
    /\ \A i \in 1..Len(reads) :
          EngineRead(reads[i]) =>
              /\ EngineFails(reads[i]) <=> reads[i].res = "Err"
              /\ reads[i].res = "Err" =>
                    /\ reads[i].block = NoBlock
                    /\ i = Len(reads)
                    /\ pc = "panic"
                    /\ output = NoOutput
                    /\ blocks = <<>>

\* a render stopped by a table body that fails at run time, after an earlier
\* block was read
C11_Witness ==
    /\ pc = "panic"
    /\ Len(reads) >= 2
    /\ Last(reads).header.t = "DynamicTable"
    /\ EngineFails(Last(reads))
    /\ Last(reads).res = "Err"
    /\ CustomCount = Len(reads) - 1

Assigns(line, v) == Len(line) = 3 /\ line[1] \in {"let", "set"} /\ line[2] = v

\* what the body the call c read binds v to last: Some(value), None if it
\* binds v nowhere; a ScriptGlobals body is compiled, not run
BoundIn(c, v) ==
    IF c.kind = "block" /\ c.header.t = "Data"
    THEN IF IsSome(ParseData(c.arg)) /\ Unwrap(ParseData(c.arg)).name = v
         THEN Some("array") ELSE None
    ELSE IF c.kind = "block" /\ c.header.t \in {"Script", "DynamicTable", "DynamicChart"}
    THEN LET hits == SelectSeq(Lines(c.arg), LAMBDA l : Assigns(l, v))
         IN  IF hits = <<>> THEN None ELSE Some(Last(hits)[3])
    ELSE None

\* the value most recently bound to v by the calls before the i-th
RECURSIVE BoundBefore(_, _)
BoundBefore(v, i) ==
    IF i <= 1 THEN None
    ELSE IF IsSome(BoundIn(reads[i - 1], v)) THEN BoundIn(reads[i - 1], v)
    ELSE BoundBefore(v, i - 1)

Inner(c) == SubSeq(c.arg, 2, Len(c.arg) - 1)

\* C12: the blocks and inline expressions of a render are evaluated in
\* source order against one scope: at every reader call each variable has the
\* value the blocks before it bound to it last (none if none did); an inline
\* expression naming a variable shows that value, and so does a debug call on
\* the first line of a Script block.
\* Stated of the reader calls on record while the document is parsed, once
\* it has been, and once the render has aborted.
C12_ScopePersistsInOrder ==
    pc \in {"parse", "parsed", "panic"} =>
        \A i \in 1..Len(reads) : \A v \in {"x", "d"} :
            /\ Eval(v, reads[i].rt.scope) = BoundBefore(v, i)
            /\ (reads[i].kind = "inline" /\ reads[i].reader = "Script"
                   /\ BeforeComment(Inner(reads[i])) = <<v>>) =>
                  IF IsSome(BoundBefore(v, i))
                  THEN /\ reads[i].res = "Some"
                       /\ reads[i].block.code = <<v, "//>">> \o BoundBefore(v, i)
                  ELSE reads[i].res = "Err"
            /\ (reads[i].kind = "block" /\ reads[i].header.t = "Script"
                   /\ reads[i].res = "Some"
                   /\ Lines(reads[i].arg)[1] = <<"debug", v>>) =>
                  /\ reads[i].block.lines[1] = LineCode(<<"debug", v>>)
                  /\ reads[i].block.lines[2] = LineOutput(BoundBefore(v, i))

\* x is set to 1 by one Script block and to 2 by the next, which shows 1
\* before it does; the inline expression after them shows 2
C12_Witness ==
    /\ Len(reads) = 3
    /\ reads[1].arg = <<"let", "x", "1", "\n">>
    /\ reads[2].header.t = "Script"
    /\ Len(reads[2].block.lines) >= 2
    /\ reads[2].block.lines[2] = LineOutput(<<"1">>)
    /\ reads[3].kind = "inline"
    /\ reads[3].block.code = <<"x", "//>", "2">>

IsGlobals(c) == c.kind = "block" /\ c.header.t = "ScriptGlobals"

\* the runtime the i-th reader call left behind
RuntimeAfter(i) == IF i < Len(reads) THEN reads[i + 1].rt ELSE runtime

\* the ScriptGlobals blocks read before the i-th call
GlobalsBefore(i) == {j \in 1..(i - 1) : IsGlobals(reads[j])}

\* the functions callable at the i-th call: those of the most recent
\* ScriptGlobals block before it
CallableAt(i) ==
    IF GlobalsBefore(i) = {} THEN {}
    ELSE Functions(reads[CHOOSE j \in GlobalsBefore(i) :
                             \A k \in GlobalsBefore(i) : k <= j].arg)

DebugLines(script) ==
    SelectSeq(Lines(script), LAMBDA l : l # <<>> /\ Head(l) = "debug")

\* C13: reading a ScriptGlobals block runs none of its top-level statements:
\* the scope is after the read what it was before, no block is returned, and
\* no later Script block shows output of the globals' statements; at every
\* later call the functions of the most recent ScriptGlobals block are the
\* ones callable, and an inline call of one of them returns its value.
\* Stated of the reader calls on record while the document is parsed, once
\* it has been, and once the render has aborted.
C13_GlobalsOnlyDefine ==
    pc \in {"parse", "parsed", "panic"} =>
        \A i \in 1..Len(reads) :
            /\ IsGlobals(reads[i]) =>
                  /\ RuntimeAfter(i).scope = reads[i].rt.scope
                  /\ reads[i].res \in {"None", "Err"}
                  /\ reads[i].block = NoBlock
                  /\ reads[i].res = "None" <=> Compiles(reads[i].arg)
            /\ MergeFunctions(reads[i].rt.globals, {}) = CallableAt(i)
            /\ (reads[i].kind = "block" /\ reads[i].header.t = "Script"
                   /\ reads[i].res = "Some") =>
                  Len(OutputLines(reads[i].block.lines)) = Len(DebugLines(reads[i].arg))
            /\ (reads[i].kind = "inline" /\ reads[i].reader = "Script"
                   /\ Len(Inner(reads[i])) = 2 /\ Inner(reads[i])[1] = "call") =>
                  IF \E f \in CallableAt(i) : f.name = Inner(reads[i])[2]
                  THEN /\ reads[i].res = "Some"
                       /\ \E f \in CallableAt(i) :
                             /\ f.name = Inner(reads[i])[2]
                             /\ reads[i].block.code
                                   = Inner(reads[i]) \o <<"//>", f.body[2]>>
                  ELSE reads[i].res = "Err"

\* two ScriptGlobals blocks, the first with top-level statements, then an
\* inline call: it returns the value of the second block's function and the
\* scope is still empty
C13_Witness ==
    /\ Len(reads) = 3
    /\ IsGlobals(reads[1])
    /\ Lines(reads[1].arg)[1] = <<"let", "x", "3">>
    /\ IsGlobals(reads[2])
    /\ reads[3].block.code = <<"call", "f", "//>", "8">>
    /\ runtime.scope = {}

\* the call c read a dataset
IsDataRead(c) ==
    c.kind = "block" /\ c.header.t = "Data" /\ c.res = "Some" /\ IsSome(ParseData(c.arg))

Dataset(c) == Unwrap(ParseData(c.arg))

\* no dataset of the name read by call i is read by the calls i+1 .. j
NotRedeclared(i, j) ==
    \A k \in (i + 1)..j :
        ~(IsDataRead(reads[k]) /\ Dataset(reads[k]).name = Dataset(reads[i]).name)

\* C14: once a Data block has declared dataset N with rows R, N stays bound
\* to R as a constant after every later call of the render (until a Data
\* block declares N again): no script changes what N names, an inline
\* expression N[i][f] returns R[i][f], and the reader keeps the record
\* under N.
C14_DatasetReadOnly ==
    \A i \in 1..Len(reads) :
        IsDataRead(reads[i]) =>
            \A j \in i..Len(reads) :
                NotRedeclared(i, j) =>
                    /\ ScopeHas(RuntimeAfter(j).scope, Dataset(reads[i]).name)
                    /\ ScopeGet(RuntimeAfter(j).scope, Dataset(reads[i]).name)
                          = Entry(Dataset(reads[i]).name, "array", TRUE,
                                  Dataset(reads[i]).rows)
                    /\ (j = Len(reads)) => Dataset(reads[i]) \in data
                    /\ (reads[j].kind = "inline" /\ Len(Inner(reads[j])) = 4
                           /\ Inner(reads[j])[1] = "idx"
                           /\ Inner(reads[j])[2] = Dataset(reads[i]).name) =>
                          /\ reads[j].res = "Some"
                          /\ \E p \in Dataset(reads[i]).rows[DigitValue(Inner(reads[j])[3]) + 1] :
                                /\ p[1] = Inner(reads[j])[4]
                                /\ reads[j].block.code = Inner(reads[j]) \o <<"//>", p[2]>>

IsTableRead(c) == c.kind = "block" /\ c.header.t = "DynamicTable" /\ c.res = "Some"

RowLines(script) == SelectSeq(Lines(script), LAMBDA l : l # <<>> /\ Head(l) = "row")

\* the values a row line passes, the variables having their values in scope
RowPassed(line, scope) == [k \in 1..(Len(line) - 1) |-> Unwrap(Eval(line[k + 1], scope))]

\* a table line of the Markdown serializer, as an output comment
TableLine(vals) ==
    <<"//>">> \o Flatten([k \in 1..Len(vals) |-> <<"|", vals[k]>>]) \o <<"|">>

SeparatorLine(n) == <<"//>">> \o Repeat("|---", n) \o <<"|">>

\* C15: a table block whose body calls row k+1 times keeps the rows in call
\* order, the first as header; its Markdown is a fenced block whose text is
\* the body's lines without earlier output comments, then exactly one header
\* line, one separator line and k body lines, each an output comment.
\* Stated of the reader calls on record while the document is parsed, once
\* it has been, and once the render has aborted.
C15_TableHeaderThenRows ==
    pc \in {"parse", "parsed", "panic"} =>
        \A i \in 1..Len(reads) :
            IsTableRead(reads[i]) =>
                LET passed == [k \in 1..Len(RowLines(reads[i].arg)) |->
                                  RowPassed(RowLines(reads[i].arg)[k], RuntimeAfter(i).scope)]
                    md == to_events(reads[i].block, "Md", <<>>)
                IN  /\ reads[i].block.calls = passed
                    /\ md.ok
                    /\ Len(md.evs) = 3
                    /\ md.evs[1] = StartEv("Fenced", HeaderToString(reads[i].header, <<>>))
                    /\ md.evs[2].k = "Text"
                    /\ Lines(md.evs[2].s)
                          = SelectSeq(Lines(reads[i].arg), LAMBDA l : ~IsOutputComment(l))
                            \o <<TableLine(Head(passed)), SeparatorLine(Len(Head(passed)))>>
                            \o [k \in 1..(Len(passed) - 1) |-> TableLine(passed[k + 1])]
                    /\ Len(SelectSeq(Lines(md.evs[2].s), IsOutputComment)) = Len(passed) + 1

\* a Markdown render of a table block that called row three times and had
\* an earlier output comment in its body: one header, one separator, two rows
C15_Witness ==
    /\ pc = "rendered"
    /\ output.format = "Md"
    /\ \E i \in 1..Len(reads) :
          /\ IsTableRead(reads[i])
          /\ Len(reads[i].block.calls) = 3
          /\ \E l \in Range(Lines(reads[i].arg)) : IsOutputComment(l)
    /\ SelectSeq(Lines(output.text), IsOutputComment)
          = <<TableLine(<<"1", "2">>), SeparatorLine(2),
              TableLine(<<"3", "4">>), TableLine(<<"1", "6">>)>>

\* the messages logged for line n, in the order they were logged
LoggedFor(log, n) ==
    [k \in 1..Len(SelectSeq(log, LAMBDA e : e[1] = n)) |->
        LineOutput(<<SelectSeq(log, LAMBDA e : e[1] = n)[k][2]>>)]

\* line n of the source as the result lists it: the line itself unless it is
\* an output comment, then the messages logged for line n
ListedFor(ls, log, n) ==
    (IF IsOutputComment(ls[n]) THEN <<>> ELSE <<LineCode(ls[n])>>) \o LoggedFor(log, n)

\* C16: the result of running a Script block is, for the source lines
\* 1, 2, .. in order, the line itself unless it is an output comment,
\* directly followed by the messages the run logged for that line number in
\* the order they were logged; it holds nothing else.
\* Stated of the reader calls on record while the document is parsed, once
\* it has been, and once the render has aborted.
C16_OutputAfterItsLine ==
    pc \in {"parse", "parsed", "panic"} =>
        \A i \in 1..Len(reads) :
            (reads[i].kind = "block" /\ reads[i].header.t = "Script"
               /\ reads[i].res = "Some") =>
                reads[i].block.lines
                  = Flatten([n \in 1..Len(Lines(reads[i].arg)) |->
                        ListedFor(Lines(reads[i].arg),
                                  RunAst(reads[i].arg, reads[i].rt.scope,
                                         reads[i].rt.globals, "").log, n)])

\* a Script block with an earlier output comment on line 2 and debug calls
\* on lines 1 and 4: the result has the three other lines and one message
\* after the first and after the last
C16_Witness ==
    \E i \in 1..Len(reads) :
        /\ reads[i].res = "Some"
        /\ Len(Lines(reads[i].arg)) = 4
        /\ reads[i].block.lines
              = <<LineCode(<<"debug", "x">>), LineOutput(<<"1">>),
                  LineCode(<<"set", "x", "2">>),
                  LineCode(<<"debug", "x">>), LineOutput(<<"2">>)>>

\* the fragments with a blank line between consecutive ones
RECURSIVE BlankLineJoined(_)
BlankLineJoined(fragments) ==
    IF fragments = <<>> THEN <<>>
    ELSE IF Len(fragments) = 1 THEN fragments[1]
    ELSE fragments[1] \o <<"\n", "\n">> \o BlankLineJoined(Tail(fragments))

\* the block lists the parse-and-segment pipeline can return for the parse p
\* of a text, one per order the header fields can be written in; none when
\* the pipeline aborts
Segmented(p, f) ==
    IF p.panic # "" \/ ~f.ok THEN {}
    ELSE {RenderGroups(f.groups, o).blocks :
             o \in {q \in OrderChoices(p.out) : RenderGroups(f.groups, q).ok}}

PipelineOn(p) == Segmented(p, FoldGroups(<<>>, p.out))

\* the pipeline on the fragments of bs, in block order (the order of the
\* ids), a blank line between consecutive ones
OnBlankLineJoined(bs) ==
    PipelineOn(ParseEvents(Tokenize(
        BlankLineJoined([i \in 1..Len(bs) |-> bs[i].markdown]))))

\* C17: rerender replaces the structure with what the parse-and-segment
\* pipeline returns for the blocks' Markdown fragments put together in id
\* order with a blank line between consecutive fragments; it aborts only if
\* the pipeline aborts on that text.
C17_RerenderJoinsWithBlankLine ==
    [][(pc \in {"segmented", "edited"} /\ pc' \in {"rerendered", "panic"}) =>
          IF OnBlankLineJoined(blocks) = {} THEN pc' = "panic"
          ELSE pc' = "rerendered" /\ blocks' \in OnBlankLineJoined(blocks)]_vars

\* the nesting depth of the document after its first n tokenizer events
Depth(n) ==
    Cardinality({j \in 1..n : input[j].k = "Start"})
    - Cardinality({j \in 1..n : input[j].k = "End"})

\* the document's event i opens a top-level fenced block tagged External
ExternalAt(i) ==
    /\ input[i].k = "Start" /\ input[i].tag = "Fenced"
    /\ Depth(i - 1) = 0
    /\ IsSome(ParseHeader(input[i].s))
    /\ Unwrap(ParseHeader(input[i].s)).t = "External"

\* the raw body of the fenced block opened at i: its text up to its End
BodyAt(i) ==
    LET e == CHOOSE j \in (i + 1)..Len(input) :
                 /\ input[j].k = "End"
                 /\ \A m \in (i + 1)..(j - 1) : input[m].k # "End"
    IN  Flatten([m \in 1..(e - i - 1) |-> input[i + m].s])

PayloadAt(i) ==
    [body |-> BodyAt(i), head |-> Unwrap(ParseHeader(input[i].s)).fields]

\* the payloads of the document's top-level External blocks, in order
TopExternals ==
    LET at == SelectSeq([i \in 1..Len(input) |-> i], ExternalAt)
    IN  [n \in 1..Len(at) |-> PayloadAt(at[n])]

IsExternal(ee) == ee.x = "External"
PayloadOf(ee) == [body |-> ee.body, head |-> ee.head]

\* C18: a top-level fenced block tagged External is never handed to a
\* reader; each yields one External event with its header fields and raw
\* body; render_blocks records a group that is exactly one External event as
\* a block with empty html, empty markdown and that payload, and every other
\* group with no payload.
C18_ExternalPreserved ==
    /\ \A i \in 1..Len(reads) : reads[i].header.t # "External"
    /\ pc \in {"parsed", "rendered", "segmented"} =>
          LET xs == SelectSeq(events, IsExternal)
          IN  [n \in 1..Len(xs) |-> PayloadOf(xs[n])] = TopExternals
    /\ pc = "segmented" =>
          LET groups == FoldGroups(<<>>, events).groups
          IN  /\ Len(blocks) = Len(groups)
              /\ \A n \in 1..Len(groups) :
                     IF Len(groups[n].events) = 1 /\ IsExternal(groups[n].events[1])
                     THEN blocks[n] = MarkdownBlock(groups[n].id, <<>>, <<>>,
                                          Some(PayloadOf(groups[n].events[1])))
                     ELSE blocks[n].external = None

\* the header in force at the document's event j: that of the fenced block
\* around it, if its info string is a header
HeaderOver(j) ==
    LET fences == {i \in 1..(j - 1) : input[i].tag = "Fenced"}
        last == CHOOSE i \in fences : \A m \in fences : m <= i
    IN  IF fences = {} \/ input[last].k # "Start" THEN None
        ELSE ParseHeader(input[last].s)

\* the calls that answer the input at the document's event j: for the body
\* of a block that goes to the readers, or an inline code span, one by each
\* reader that is capable of it and that no capable reader precedes in the
\* registration order; none for any other event
CallsOwed(j) ==
    IF input[j].k \notin {"Text", "Code"} THEN {}
    ELSE LET h == HeaderOver(j)
             block == input[j].k = "Text" /\ IsSome(h)
             can == [n \in 1..Len(readers) |->
                        IF block THEN can_read_block(readers[n], Unwrap(h))
                        ELSE can_read_inline(readers[n], input[j].s)]
         IN  IF input[j].k = "Text" /\ (~IsSome(h) \/ Unwrap(h).t = "External")
             THEN {}
             ELSE {[reader |-> readers[n],
                    kind |-> IF block THEN "block" ELSE "inline",
                    header |-> IF block THEN Unwrap(h) ELSE HeaderEmpty(""),
                    arg |-> input[j].s] :
                      n \in {q \in 1..Len(readers) :
                                can[q] /\ \A m \in 1..(q - 1) : ~can[m]}}

IsOwed(j) == CallsOwed(j) # {}

\* C19: for every block header and every inline code span, the reader that
\* is invoked is the first in registration order (Script, Code, Plotters,
\* Graph) whose capability predicate holds, and no other reader is invoked
\* for that input: while the document is parsed, when it has been, and when
\* parsing aborted, the calls made are, in order, one per input that some
\* reader is capable of.
C19_FirstCapableReader ==
    pc \in {"parse", "parsed", "panic"} =>
        LET owing == SelectSeq([j \in 1..(pos - 1) |-> j], IsOwed)
        IN  /\ Len(reads) = Len(owing)
            /\ \A i \in 1..Len(reads) :
                   [reader |-> reads[i].reader, kind |-> reads[i].kind,
                    header |-> reads[i].header, arg |-> reads[i].arg]
                       \in CallsOwed(owing[i])

\* a Code block goes to the Code reader, the second registered, and an
\* inline expression to the Script reader, the first
C19_Witness ==
    /\ pc = "parse"
    /\ Len(reads) = 2
    /\ reads[1].reader = "Code" /\ reads[1].kind = "block"
    /\ reads[2].reader = "Script" /\ reads[2].kind = "inline"

\* the top-level elements closed among the document's first n events
Closed(n) ==
    Cardinality({j \in 1..n : input[j].k = "End" /\ Depth(j) = 0})

\* the boundary markers carrying index k
BoundaryStart(k) == StartEv("FootnoteDefinition", <<"yamdr:">> \o FormatNum(k))
BoundaryEnd(k) == EndEv("FootnoteDefinition", <<"yamdr:">> \o FormatNum(k))

\* C20: on a well-nested token stream the adapter keeps the nesting depth,
\* which is never below 0, and the count of closed top-level elements; for
\* the event it pulls next it emits the boundary-start marker with index k
\* right before the Start of the k-th (0-based) top-level element, the
\* boundary-end marker with the same k right after that element's End, and
\* otherwise, at any depth, the event alone, unmodified.
C20_BoundaryMarkers ==
    (pc = "parse" /\ pos <= Len(input)) =>
        /\ level = Depth(pos - 1)
        /\ level >= 0
        /\ element_i = Closed(pos - 1)
        /\ Mark(input[pos], level, element_i).out
              = IF input[pos].k = "Start" /\ Depth(pos - 1) = 0
                THEN <<BoundaryStart(Closed(pos - 1)), input[pos]>>
                ELSE IF input[pos].k = "End" /\ Depth(pos) = 0
                THEN <<input[pos], BoundaryEnd(Closed(pos - 1))>>
                ELSE <<input[pos]>>

\* the adapter is about to close the second top-level element, a block quote
\* whose fenced block it passed at depth 2
C20_Witness ==
    /\ pc = "parse" /\ pos <= Len(input)
    /\ input[pos].k = "End" /\ level = 1 /\ element_i = 1
    /\ \E j \in 1..(pos - 1) : Depth(j) = 2 /\ input[j].k = "Start"

\* the document has no custom block: no fenced block has a header, no reader
\* was called and every event is a token of the document or a boundary
NoCustomBlocks ==
    /\ \A i \in 1..Len(input) :
           input[i].tag = "Fenced" => ~IsSome(ParseHeader(input[i].s))
    /\ reads = <<>>
    /\ \A i \in 1..Len(events) : events[i].x \in {"Standard", "Separator"}

\* C21: for a document with no custom blocks, tokenizing the Markdown
\* re-serialization of its token stream yields the token stream of the
\* document; and the re-serialization, being in the serializer's canonical
\* form, is itself re-serialized to the same text.
C21_MarkdownRoundTrip ==
    (pc = "rendered" /\ output.format = "Md" /\ NoCustomBlocks) =>
        /\ Tokenize(output.text) = input
        /\ MdRender(Tokenize(output.text)).ok
        /\ MdRender(Tokenize(output.text)).out = output.text

\* what render_markdown's serializer returns for the events of the document
\* in the given format, before any wrapper, one text per order the header
\* fields can be written in; none where it aborts
WholeOf(format) ==
    {RenderEvents(format, events, o).out :
        o \in {q \in OrderChoices(events) : RenderEvents(format, events, q).ok}}

\* C22: separators add nothing to the output: once render_blocks has
\* returned, the markdown fields of its blocks put together in order are the
\* Markdown render_markdown produces for the document, and the html fields
\* put together are the HTML it produces before the style and content
\* wrapper is added.
C22_BlocksConcatenateToWhole ==
    pc = "segmented" =>
        /\ Flatten([i \in 1..Len(blocks) |-> blocks[i].markdown]) \in WholeOf("Md")
        /\ Flatten([i \in 1..Len(blocks) |-> blocks[i].html]) \in WholeOf("Html")

\* C23: rendering is a function of the text: a second parse of the document
\* starts from a fresh scope, globals and dataset and makes the same events,
\* and whichever order the header fields of a custom block are written in,
\* render_markdown with the same options returns the output it returned and
\* render_blocks the blocks it returned.
C23_RenderIsAFunction ==
    /\ pc = "parsed" =>
          /\ ParseEvents(input).panic = ""
          /\ ParseEvents(input).out = events
    /\ pc = "rendered" =>
          \A o \in OrderChoices(events) :
              /\ RenderEvents(output.format, events, o).ok
              /\ Page(output.options, output.format,
                      RenderEvents(output.format, events, o).out) = output.text
    /\ pc = "segmented" =>
          \A o \in OrderChoices(events) :
              /\ RenderGroups(FoldGroups(<<>>, events).groups, o).ok
              /\ RenderGroups(FoldGroups(<<>>, events).groups, o).blocks = blocks

\* the HTML the serializer returns for the extended events xevs, none where
\* it aborts
HtmlOf(xevs) ==
    {RenderEvents("Html", xevs, o).out :
        o \in {q \in OrderChoices(xevs) : RenderEvents("Html", xevs, q).ok}}

\* C24: a Markdown-to-Markdown render keeps the meaning of the document:
\* the Markdown that render_markdown returned parses without abort, and its
\* HTML is the HTML of the document itself; a Code block's header fields and
\* the functions of a ScriptGlobals block are still in effect after the pass.
C24_MarkdownPassKeepsHtml ==
    (pc = "rendered" /\ output.format = "Md") =>
        /\ ParseEvents(Tokenize(output.text)).panic = ""
        /\ HtmlOf(ParseEvents(Tokenize(output.text)).out) = WholeOf("Html")

\* the prefixes a line of Markdown holds, and whether it opens with one
Prefixes(line) == Cardinality({i \in 1..Len(line) : line[i] = ">"})

\* C25: in the Markdown of a document of block quotes every line that is not
\* blank opens with the quote prefix and holds it exactly once, however
\* emphasis, links and inline code divide the line into Text events.
C25_OnePrefixPerQuoteLine ==
    (pc = "rendered" /\ output.format = "Md") =>
        \A n \in 1..Len(Lines(output.text)) :
            Lines(output.text)[n] # <<>> =>
                /\ Head(Lines(output.text)[n]) = ">"
                /\ Prefixes(Lines(output.text)[n]) = 1

\* C26: whatever events parse_markdown returned, the extended-event
\* transform and the two serializers handle every one of them: neither
\* format aborts on the events of the document, and none on the events of
\* one of its groups.
C26_EveryEventRenders ==
    pc = "parsed" =>
        \A o \in OrderChoices(events) :
            /\ RenderEvents("Html", events, o).ok
            /\ RenderEvents("Md", events, o).ok
            /\ FoldGroups(<<>>, events).ok =>
                  RenderGroups(FoldGroups(<<>>, events).groups, o).ok

\* the document's event i opens a fenced block whose header a reader accepts
AcceptedAt(i) ==
    /\ input[i].k = "Start" /\ input[i].tag = "Fenced"
    /\ IsSome(ParseHeader(input[i].s))
    /\ \E n \in 1..Len(readers) :
           can_read_block(readers[n], Unwrap(ParseHeader(input[i].s)))

IsBlockRead(c) == c.kind = "block"
IsCustomOrExternal(ee) == ee.x \in {"Custom", "External"}

\* C27: while the document is parsed the pending header is that of the fenced
\* block the parse is in, none outside one; between blocks, every fenced block
\* passed whose header a reader accepts has caused one read_block call, on
\* its whole body, whether the body came as zero, one or several Text events,
\* and the Custom and External events are no more than the headed blocks
\* passed and the inline reads.
C27_OneReadPerBlock ==
    pc = "parse" =>
        /\ current_custom_block = HeaderOver(pos)
        /\ HeaderOver(pos) = None =>
              LET at == SelectSeq([i \in 1..(pos - 1) |-> i], AcceptedAt)
                  br == SelectSeq(reads, IsBlockRead)
                  headed == {i \in 1..(pos - 1) :
                                /\ input[i].k = "Start" /\ input[i].tag = "Fenced"
                                /\ IsSome(ParseHeader(input[i].s))}
              IN  /\ Len(br) = Len(at)
                  /\ \A n \in 1..Len(br) :
                         /\ br[n].header = Unwrap(ParseHeader(input[at[n]].s))
                         /\ br[n].arg = BodyAt(at[n])
                  /\ Len(SelectSeq(events, IsCustomOrExternal))
                        <= Cardinality(headed) + Len(reads) - Len(br)

\* how many entries of the sequence s satisfy Test
CountOf(s, Test(_)) == Len(SelectSeq(s, Test))

\* C28: every message the debug log captured while a Script block ran is
\* listed exactly once as an Output line of the block's result, whatever the
\* line recorded for it: the result has as many Output lines as the log has
\* entries, and each message as often as it was logged.
\* Stated of the reader calls on record while the document is parsed, once
\* it has been, and once the render has aborted.
C28_EveryLogEntryListed ==
    pc \in {"parse", "parsed", "panic"} =>
        \A i \in 1..Len(reads) :
            (reads[i].kind = "block" /\ reads[i].header.t = "Script"
               /\ reads[i].res = "Some") =>
                LET log == RunAst(reads[i].arg, reads[i].rt.scope,
                                  reads[i].rt.globals, "").log
                    listed == SelectSeq(reads[i].block.lines,
                                        LAMBDA line : line.lt = "Output")
                IN  /\ Len(listed) = Len(log)
                    /\ \A k \in 1..Len(log) :
                          CountOf(listed, LAMBDA line : line.s = <<log[k][2]>>)
                            = CountOf(log, LAMBDA e : e[2] = log[k][2])

\* C29: rerender on blocks none of whose fragments was edited returns the
\* same document: it does not abort, and the blocks after it are the blocks
\* before it, as many, with the same ids, html, markdown and external
\* payloads.
C29_RerenderUneditedIsIdentity ==
    [][(pc = "segmented" /\ pc' \in {"rerendered", "panic"})
          => (pc' = "rerendered" /\ blocks' = blocks)]_vars

\* C30: generate_table returns for every body that compiles and runs, a
\* body that never calls row included: a DynamicTable block whose body
\* compiles and runs without an error is answered with a block or an error
\* value, and the render is not aborted by it.
\* Stated of the reader calls on record while the document is parsed, once
\* it has been, and once the render has aborted.
C30_TableNeverAborts ==
    pc \in {"parse", "parsed", "panic"} =>
        \A i \in 1..Len(reads) :
            (reads[i].kind = "block" /\ reads[i].header.t = "DynamicTable"
               /\ Compiles(reads[i].arg)
               /\ RunAst(reads[i].arg, reads[i].rt.scope,
                         reads[i].rt.globals, "row").err = "") =>
                reads[i].res \in {"Some", "Err"}

====
